---- MODULE Spec2Model ----
(***************************************************************************)
(* A model of fpdf/drawing.py: the GraphicsStyle property bag and its      *)
(* merge / paint-rule resolution, the process-wide style registry, the     *)
(* PaintedPath builder and the recursive renderer of DrawingContext.       *)
(*                                                                         *)
(* Numbers of the style model (colour components, opacities, widths, dash  *)
(* lengths) are fixed-point integers counting 1e-5 units, so that          *)
(* number_to_str ("%.4f") is a real rounding.  Coordinates and transform   *)
(* coefficients are integers, which "%.4f" prints exactly.                 *)
(***************************************************************************)
EXTENDS Integers, Sequences, FiniteSets, TLC

(***************************************************************************)
(* Python values.  Every value is a record [tag, v]; the tag is the Python *)
(* type (or the singleton) and v its payload.                              *)
(***************************************************************************)
INHERIT == [tag |-> "INHERIT", v |-> 0]
None == [tag |-> "None", v |-> 0]
Num(n) == [tag |-> "num", v |-> n]
Str(s) == [tag |-> "str", v |-> s]
Bool(b) == [tag |-> "bool", v |-> b]
Tuple(seq) == [tag |-> "tuple", v |-> seq]
PdfName(s) == [tag |-> "Name", v |-> s]
Member(cls, val) == [tag |-> cls, v |-> val]
DeviceRGB(r, g, b, a) == [tag |-> "DeviceRGB", v |-> [colors |-> <<r, g, b>>, a |-> a]]
DeviceGray(g, a) == [tag |-> "DeviceGray", v |-> [colors |-> <<g>>, a |-> a]]

IsColor(x) == x.tag \in {"DeviceRGB", "DeviceGray"}
IsNumber(x) == x.tag \in {"num", "bool"}
\* the numeric value of a number; bool is a subclass of int
NumVal(x) == IF x.tag = "bool" THEN (IF x.v THEN 100000 ELSE 0) ELSE x.v

\* number_to_str: "%.4f" with trailing zeros stripped; the string is
\* identified with the count of 1e-4 units it denotes
NumberToStr(n) == IF n >= 0 THEN (n + 5) \div 10 ELSE 0 - ((5 - n) \div 10)

\* _check_range(value, 0.0, 1.0): TRUE when the value is accepted
CheckRange(n) == 0 <= n /\ n <= 100000

(***************************************************************************)
(* Enumerations (member values) and CoerciveEnum.coerce.                   *)
(***************************************************************************)
PathPaintRuleValues == {"S", "f", "f*", "B", "B*", "n", "auto"}
IntersectionRuleValues == {"nonzero", "evenodd"}
BlendModeValues == {"Normal", "Multiply", "ColorDodge"}
StrokeCapStyleValues == {0, 1, 2}
StrokeJoinStyleValues == {0, 1, 2}

\* str.upper() of the spellings the model assigns, then the by-name lookup
\* cls[value.upper()]; "" when there is no such member
Upper(s) ==
  CASE s = "stroke" -> "STROKE"
    [] s = "Auto" -> "AUTO"
    [] s = "dont_paint" -> "DONT_PAINT"
    [] s = "EvenOdd" -> "EVENODD"
    [] s = "multiply" -> "MULTIPLY"
    [] s = "color_dodge" -> "COLOR_DODGE"
    [] s = "round" -> "ROUND"
    [] s = "Butt" -> "BUTT"
    [] OTHER -> s

ByName(cls, name) ==
  CASE cls = "PathPaintRule" /\ name = "STROKE" -> "S"
    [] cls = "PathPaintRule" /\ name = "AUTO" -> "auto"
    [] cls = "PathPaintRule" /\ name = "DONT_PAINT" -> "n"
    [] cls = "IntersectionRule" /\ name = "NONZERO" -> "nonzero"
    [] cls = "IntersectionRule" /\ name = "EVENODD" -> "evenodd"
    [] cls = "BlendMode" /\ name = "NORMAL" -> "Normal"
    [] cls = "BlendMode" /\ name = "MULTIPLY" -> "Multiply"
    [] cls = "BlendMode" /\ name = "COLOR_DODGE" -> "ColorDodge"
    [] OTHER -> ""

EnumValues(cls) ==
  CASE cls = "PathPaintRule" -> PathPaintRuleValues
    [] cls = "IntersectionRule" -> IntersectionRuleValues
    [] cls = "BlendMode" -> BlendModeValues

\* the result of a call that may raise: err = "" when it returned
Ok(x) == [err |-> "", val |-> x]
Raise(e, x) == [err |-> e, val |-> x]

\* CoerciveEnum.coerce(cls, value); a Name is a str
Coerce(cls, value) ==
  IF value.tag = cls THEN Ok(value)
  ELSE IF value.tag \in {"str", "Name"}
    THEN IF value.v \in EnumValues(cls) THEN Ok(Member(cls, value.v))
         ELSE IF ByName(cls, Upper(value.v)) # ""
           THEN Ok(Member(cls, ByName(cls, Upper(value.v))))
           ELSE Raise("ValueError", value)
    ELSE Raise("TypeError", value)

IntByName(cls, name) ==
  CASE cls = "StrokeCapStyle" /\ name = "BUTT" -> 0
    [] cls = "StrokeCapStyle" /\ name = "ROUND" -> 1
    [] cls = "StrokeCapStyle" /\ name = "SQUARE" -> 2
    [] cls = "StrokeJoinStyle" /\ name = "MITER" -> 0
    [] cls = "StrokeJoinStyle" /\ name = "ROUND" -> 1
    [] cls = "StrokeJoinStyle" /\ name = "BEVEL" -> 2
    [] OTHER -> 0 - 1

\* CoerciveIntEnum.coerce(cls, value); integers of the model's style numbers
\* count 1e-5 units, so the int k is 100000 * k
CoerceInt(cls, value) ==
  IF value.tag = cls THEN Ok(value)
  ELSE IF value.tag \in {"str", "Name"}
    THEN IF IntByName(cls, Upper(value.v)) >= 0
           THEN Ok(Member(cls, IntByName(cls, Upper(value.v))))
           ELSE Raise("ValueError", value)
    ELSE IF value.tag \in {"num", "bool"} /\ NumVal(value) % 100000 = 0
      THEN IF NumVal(value) \div 100000 \in StrokeCapStyleValues
             THEN Ok(Member(cls, NumVal(value) \div 100000))
             ELSE Raise("ValueError", value)
      ELSE Raise("TypeError", value)

(***************************************************************************)
(* GraphicsStyle.  A style is the record of its instance attributes; an    *)
(* attribute that was never assigned reads as INHERIT (the getattr         *)
(* default of every property getter).  D is the dash (pattern, phase)      *)
(* pair stored under PDFStyleKeys.STROKE_DASH_PATTERN.                     *)
(***************************************************************************)
GraphicsStyle ==
  [paint_rule |-> INHERIT, auto_close |-> INHERIT, intersection_rule |-> INHERIT,
   fill_color |-> INHERIT, ca |-> INHERIT, stroke_color |-> INHERIT, CA |-> INHERIT,
   BM |-> INHERIT, LW |-> INHERIT, LC |-> INHERIT, LJ |-> INHERIT, ML |-> INHERIT,
   D |-> INHERIT]

\* MERGE_PROPERTIES with each opacity merged before the colour that sets it
MERGE_PROPERTIES_OpacityFirst ==
  <<"paint_rule", "auto_close", "intersection_rule", "fill_opacity", "fill_color",
    "stroke_opacity", "stroke_color", "blend_mode", "stroke_width",
    "stroke_cap_style", "stroke_join_style", "stroke_miter_limit",
    "stroke_dash_pattern", "stroke_dash_phase">>

MERGE_PROPERTIES ==
  <<"paint_rule", "auto_close", "intersection_rule", "fill_color", "fill_opacity",
    "stroke_color", "stroke_opacity", "blend_mode", "stroke_width",
    "stroke_cap_style", "stroke_join_style", "stroke_miter_limit",
    "stroke_dash_pattern", "stroke_dash_phase">>

\* color_from_hex_string on the spellings the model assigns
ColorFromHexString(s) ==
  CASE s = "#F00" -> Ok(DeviceRGB(100000, 0, 0, None))
    [] s = "#FF0000" -> Ok(DeviceRGB(100000, 0, 0, None))
    [] s = "#0000FF80" -> Ok(DeviceRGB(0, 0, 100000, Num(50196)))
    [] OTHER -> Raise("ValueError", None)

SetPaintRule(s, new) ==
  LET s1 == IF new = None THEN [s EXCEPT !.paint_rule = Member("PathPaintRule", "n")]
            ELSE s
  IN IF new = INHERIT THEN Ok([s1 EXCEPT !.paint_rule = new])
     ELSE LET c == Coerce("PathPaintRule", new)
          IN IF c.err # "" THEN Raise(c.err, s1)
             ELSE Ok([s1 EXCEPT !.paint_rule = c.val])

SetAutoClose(s, new) ==
  IF new = INHERIT \/ new.tag = "bool"
     \/ (new.tag = "num" /\ new.v \in {0, 100000})
    THEN Ok([s EXCEPT !.auto_close = new])
    ELSE Raise("ValueError", s)

SetIntersectionRule(s, new) ==
  IF new = INHERIT THEN Ok([s EXCEPT !.intersection_rule = new])
  ELSE LET c == Coerce("IntersectionRule", new)
       IN IF c.err # "" THEN Raise(c.err, s)
          ELSE Ok([s EXCEPT !.intersection_rule = c.val])

\* shared by fill_opacity and stroke_opacity
OpacityError(new) ==
  IF new = None \/ new = INHERIT THEN ""
  ELSE IF ~IsNumber(new) THEN "TypeError"
  ELSE IF ~CheckRange(NumVal(new)) THEN "ValueError"
  ELSE ""

SetFillOpacity(s, new) ==
  IF OpacityError(new) # "" THEN Raise(OpacityError(new), s)
  ELSE Ok([s EXCEPT !.ca = new])

SetStrokeOpacity(s, new) ==
  IF OpacityError(new) # "" THEN Raise(OpacityError(new), s)
  ELSE Ok([s EXCEPT !.CA = new])

SetFillColor(s, color) ==
  LET parsed == IF color.tag = "str" THEN ColorFromHexString(color.v) ELSE Ok(color)
  IN IF parsed.err # "" THEN Raise(parsed.err, s)
     ELSE IF IsColor(parsed.val)
       THEN LET s1 == [s EXCEPT !.fill_color = parsed.val]
            IN IF parsed.val.v.a # None THEN SetFillOpacity(s1, parsed.val.v.a)
               ELSE Ok(s1)
     ELSE IF parsed.val = None \/ parsed.val = INHERIT
       THEN Ok([s EXCEPT !.fill_color = parsed.val])
     ELSE Raise("TypeError", s)

SetStrokeColor(s, color) ==
  LET parsed == IF color.tag = "str" THEN ColorFromHexString(color.v) ELSE Ok(color)
  IN IF parsed.err # "" THEN Raise(parsed.err, s)
     ELSE IF IsColor(parsed.val)
       THEN LET s1 == [s EXCEPT !.stroke_color = parsed.val]
            IN IF parsed.val.v.a # None THEN SetStrokeOpacity(s1, parsed.val.v.a)
               ELSE Ok(s1)
     ELSE IF parsed.val = None \/ parsed.val = INHERIT
       THEN Ok([s EXCEPT !.stroke_color = parsed.val])
     ELSE Raise("TypeError", s)

SetBlendMode(s, value) ==
  IF value = INHERIT THEN Ok([s EXCEPT !.BM = value])
  ELSE LET c == Coerce("BlendMode", value)
       IN IF c.err # "" THEN Raise(c.err, s)
          ELSE Ok([s EXCEPT !.BM = PdfName(c.val.v)])

SetStrokeWidth(s, width) ==
  IF IsNumber(width) \/ width = None \/ width = INHERIT
    THEN Ok([s EXCEPT !.LW = width])
    ELSE Raise("TypeError", s)

SetStrokeCapStyle(s, value) ==
  IF value = INHERIT THEN Ok([s EXCEPT !.LC = value])
  ELSE LET c == CoerceInt("StrokeCapStyle", value)
       IN IF c.err # "" THEN Raise(c.err, s) ELSE Ok([s EXCEPT !.LC = c.val])

SetStrokeJoinStyle(s, value) ==
  IF value = INHERIT THEN Ok([s EXCEPT !.LJ = value])
  ELSE LET c == CoerceInt("StrokeJoinStyle", value)
       IN IF c.err # "" THEN Raise(c.err, s) ELSE Ok([s EXCEPT !.LJ = c.val])

SetStrokeMiterLimit(s, value) ==
  IF value = INHERIT \/ IsNumber(value) THEN Ok([s EXCEPT !.ML = value])
  ELSE Raise("TypeError", s)

\* the stored pair is a Python tuple (pattern, phase)
DashPair(pattern, phase) == Tuple(<<pattern, phase>>)

SetStrokeDashPattern(s, value) ==
  LET val == IF IsNumber(value) THEN Tuple(<<value>>) ELSE value
  IN IF val.tag = "tuple"
       THEN IF s.D.tag = "tuple" THEN Ok([s EXCEPT !.D = DashPair(val, s.D.v[2])])
            ELSE Ok([s EXCEPT !.D = DashPair(val, Num(0))])
     ELSE IF val = None THEN Ok([s EXCEPT !.D = DashPair(Tuple(<<>>), Num(0))])
     ELSE IF val = INHERIT THEN Ok([s EXCEPT !.D = val])
     ELSE Raise("TypeError", s)

\* a phase setter that stores the phase with an empty pattern
SetStrokeDashPhase_PatternDropped(s, value) ==
  IF IsNumber(value) THEN Ok([s EXCEPT !.D = DashPair(Tuple(<<>>), value)])
  ELSE IF value = INHERIT THEN Ok(s)
  ELSE Raise("TypeError", s)

SetStrokeDashPhase(s, value) ==
  IF IsNumber(value)
    THEN IF s.D.tag = "tuple" THEN Ok([s EXCEPT !.D = DashPair(s.D.v[1], value)])
         ELSE Raise("ValueError", s)
  ELSE IF value = INHERIT THEN Ok(s)
  ELSE Raise("TypeError", s)

\* the property getters
GetProp(s, prop) ==
  CASE prop = "paint_rule" -> s.paint_rule
    [] prop = "auto_close" -> s.auto_close
    [] prop = "intersection_rule" -> s.intersection_rule
    [] prop = "fill_color" -> s.fill_color
    [] prop = "fill_opacity" -> s.ca
    [] prop = "stroke_color" -> s.stroke_color
    [] prop = "stroke_opacity" -> s.CA
    [] prop = "blend_mode" -> s.BM
    [] prop = "stroke_width" -> s.LW
    [] prop = "stroke_cap_style" -> s.LC
    [] prop = "stroke_join_style" -> s.LJ
    [] prop = "stroke_miter_limit" -> s.ML
    [] prop = "stroke_dash_pattern" -> IF s.D.tag = "tuple" THEN s.D.v[1] ELSE s.D
    [] prop = "stroke_dash_phase" -> IF s.D.tag = "tuple" THEN s.D.v[2] ELSE s.D

\* setattr(style, prop, value): the property setters
SetProp(s, prop, value) ==
  CASE prop = "paint_rule" -> SetPaintRule(s, value)
    [] prop = "auto_close" -> SetAutoClose(s, value)
    [] prop = "intersection_rule" -> SetIntersectionRule(s, value)
    [] prop = "fill_color" -> SetFillColor(s, value)
    [] prop = "fill_opacity" -> SetFillOpacity(s, value)
    [] prop = "stroke_color" -> SetStrokeColor(s, value)
    [] prop = "stroke_opacity" -> SetStrokeOpacity(s, value)
    [] prop = "blend_mode" -> SetBlendMode(s, value)
    [] prop = "stroke_width" -> SetStrokeWidth(s, value)
    [] prop = "stroke_cap_style" -> SetStrokeCapStyle(s, value)
    [] prop = "stroke_join_style" -> SetStrokeJoinStyle(s, value)
    [] prop = "stroke_miter_limit" -> SetStrokeMiterLimit(s, value)
    [] prop = "stroke_dash_pattern" -> SetStrokeDashPattern(s, value)
    [] prop = "stroke_dash_phase" -> SetStrokeDashPhase(s, value)

\* GraphicsStyle.merge(parent, child), property by property from position i,
\* through the setters of the new style; a setter that raises ends the merge
RECURSIVE MergeFrom(_, _, _, _)
MergeFrom(new, parent, child, i) ==
  IF i > Len(MERGE_PROPERTIES) THEN Ok(new)
  ELSE LET prop == MERGE_PROPERTIES[i]
           cval == GetProp(child, prop)
           r == IF cval # INHERIT THEN SetProp(new, prop, cval)
                ELSE SetProp(new, prop, GetProp(parent, prop))
       IN IF r.err # "" THEN r ELSE MergeFrom(r.val, parent, child, i + 1)

\* merge with the parent's explicit values overriding the child's
Merge_ParentWins(parent, child) == MergeFrom(GraphicsStyle, child, parent, 1)

Merge(parent, child) == MergeFrom(GraphicsStyle, parent, child, 1)

(***************************************************************************)
(* render_pdf_primitive.  PDF text is the sequence of its lexemes, each a  *)
(* record [t, n]: a number is [t |-> "num", n |-> its printed value], any  *)
(* other lexeme has its text in t.                                         *)
(***************************************************************************)
Lex(text) == [t |-> text, n |-> 0]
LexNum(n) == [t |-> "num", n |-> NumberToStr(n)]
\* a coordinate or matrix coefficient: an integer, printed exactly
LexInt(k) == [t |-> "num", n |-> k * 10000]
\* Name(f"GS{k}")
GS(k) == [tag |-> "GS", v |-> k]

RECURSIVE RenderPdfPrimitive(_)
RECURSIVE RenderSeq(_)
RenderSeq(seq) ==
  IF seq = <<>> THEN <<>> ELSE RenderPdfPrimitive(Head(seq)) \o RenderSeq(Tail(seq))

RenderPdfPrimitive(primitive) ==
  CASE primitive.tag = "Raw" -> primitive.v
    [] primitive.tag = "Name" -> <<[t |-> "/", n |-> 0], Lex(primitive.v)>>
    [] primitive.tag = "GS" -> <<[t |-> "/GS", n |-> primitive.v]>>
    [] primitive.tag = "num" -> <<LexNum(primitive.v)>>
    [] primitive.tag = "bool" -> <<LexNum(NumVal(primitive))>>
    [] primitive.tag \in {"StrokeCapStyle", "StrokeJoinStyle"} ->
         <<LexNum(primitive.v * 100000)>>
    [] primitive.tag = "tuple" -> <<Lex("[")>> \o RenderSeq(primitive.v) \o <<Lex("]")>>
    [] primitive.tag = "None" -> <<Lex("null")>>

\* the members of PDFStyleKeys in definition order, with the attribute each
\* reads; SA (stroke adjustment) has no property and is never assigned
PDFStyleKeys == <<"ca", "BM", "CA", "SA", "LW", "LC", "LJ", "ML", "D">>

StyleAttr(s, key) ==
  CASE key = "ca" -> s.ca
    [] key = "BM" -> s.BM
    [] key = "CA" -> s.CA
    [] key = "SA" -> INHERIT
    [] key = "LW" -> s.LW
    [] key = "LC" -> s.LC
    [] key = "LJ" -> s.LJ
    [] key = "ML" -> s.ML
    [] key = "D" -> s.D

RECURSIVE DictItems(_, _)
DictItems(s, i) ==
  IF i > Len(PDFStyleKeys) THEN <<>>
  ELSE LET key == PDFStyleKeys[i]
           value == StyleAttr(s, key)
       IN (IF value # INHERIT /\ value # None
             THEN <<[t |-> "/", n |-> 0], Lex(key)>> \o RenderPdfPrimitive(value)
             ELSE <<>>)
          \o DictItems(s, i + 1)

\* GraphicsStyle.to_pdf_dict: the rendered dictionary text
ToPdfDict(s) ==
  <<Lex("<<"), [t |-> "/", n |-> 0], Lex("Type"), [t |-> "/", n |-> 0], Lex("ExtGState")>>
    \o DictItems(s, 1) \o <<Lex(">>")>>

(***************************************************************************)
(* Paint-rule resolution.                                                  *)
(***************************************************************************)
\* _PAINT_RULE_LOOKUP: the want-set is a set of tags, each "stroke", "fill"
\* or the value of an intersection rule
PAINT_RULE_LOOKUP(want) ==
  CASE want = {} -> "n"
    [] want = {"stroke"} -> "S"
    [] want = {"fill", "nonzero"} -> "f"
    [] want = {"fill", "evenodd"} -> "f*"
    [] want = {"stroke", "fill", "nonzero"} -> "B"
    [] want = {"stroke", "fill", "evenodd"} -> "B*"
    [] OTHER -> "KeyError"

\* the tag a value contributes to the want-set
WantTag(x) == IF x.tag = "IntersectionRule" THEN x.v ELSE x.tag

WantSet(s) ==
  (IF s.LW # None /\ s.stroke_color # None THEN {"stroke"} ELSE {})
    \cup (IF s.fill_color # None THEN {"fill", WantTag(s.intersection_rule)} ELSE {})

\* resolve_paint_rule whose fallback for an unknown want-set is DONT_PAINT
ResolvePaintRule_FallbackDontPaint(s) ==
  IF s.paint_rule = Member("PathPaintRule", "auto")
    THEN IF PAINT_RULE_LOOKUP(WantSet(s)) = "KeyError"
           THEN Member("PathPaintRule", "n")
           ELSE Member("PathPaintRule", PAINT_RULE_LOOKUP(WantSet(s)))
    ELSE s.paint_rule

ResolvePaintRule(s) ==
  IF s.paint_rule = Member("PathPaintRule", "auto")
    THEN IF PAINT_RULE_LOOKUP(WantSet(s)) = "KeyError"
           THEN Member("PathPaintRule", "B")
           ELSE Member("PathPaintRule", PAINT_RULE_LOOKUP(WantSet(s)))
    ELSE s.paint_rule

(***************************************************************************)
(* The process-wide style registry.  A Python dict is the sequence of its  *)
(* [key, val] entries in insertion order.                                  *)
(***************************************************************************)
RECURSIVE DictFind(_, _, _)
\* the position of key in the dict, 0 when it has no such key
DictFind(dict, key, i) ==
  IF i > Len(dict) THEN 0
  ELSE IF dict[i].key = key THEN i
  ELSE DictFind(dict, key, i + 1)

DictHas(dict, key) == DictFind(dict, key, 1) # 0
DictGet(dict, key) == dict[DictFind(dict, key, 1)].val
\* dict[key] = val
DictSet(dict, key, val) ==
  IF DictHas(dict, key)
    THEN [dict EXCEPT ![DictFind(dict, key, 1)] = [key |-> key, val |-> val]]
    ELSE Append(dict, [key |-> key, val |-> val])
DictKeys(dict) == {dict[i].key : i \in 1..Len(dict)}

\* a registry that starts without the entry for the bare dictionary
InitialRegistry_Empty == <<>>

\* _global_style_registry and _global_style_name_lookup after module load:
\* the dictionary of a style with nothing explicit is registered under None
InitialRegistry == <<[key |-> ToPdfDict(GraphicsStyle), val |-> None]>>
InitialNameLookup == <<>>

\* get_style_dict_by_name: the dictionary text, or the KeyError
GetStyleDictByName(lookup, name) ==
  IF DictHas(lookup, name) THEN Ok(DictGet(lookup, name)) ELSE Raise("KeyError", <<>>)

\* a name that does not depend on the size of the registry
NewGlobalStyleName_Fixed(registry) == GS(1)

\* _new_global_style_name
NewGlobalStyleName(registry) == GS(Len(registry))

\* _get_or_set_style_dict once the style is serialized: the name with the
\* registry and the reverse table the call leaves
InternStyleDict(registry, lookup, sdict) ==
  IF sdict = <<>>
    THEN [name |-> None, registry |-> registry, lookup |-> lookup]
  ELSE IF DictHas(registry, sdict)
    THEN [name |-> DictGet(registry, sdict), registry |-> registry, lookup |-> lookup]
  ELSE [name |-> NewGlobalStyleName(registry),
        registry |-> DictSet(registry, sdict, NewGlobalStyleName(registry)),
        lookup |-> DictSet(lookup, NewGlobalStyleName(registry), sdict)]

\* _get_or_set_style_dict
GetOrSetStyleDict(registry, lookup, style) ==
  InternStyleDict(registry, lookup, ToPdfDict(style))

(***************************************************************************)
(* Geometry: points are pairs <<x, y>>, transforms records of the six      *)
(* coefficients.                                                           *)
(***************************************************************************)
Point(x, y) == <<x, y>>
PointAdd(p, q) == <<p[1] + q[1], p[2] + q[2]>>
\* Point.render
PointRender(p) == <<LexInt(p[1]), LexInt(p[2])>>

Transform(a, b, c, d, e, f) == [a |-> a, b |-> b, c |-> c, d |-> d, e |-> e, f |-> f]
Translation(x, y) == Transform(1, 0, 0, 1, x, y)
Scaling(x, y) == Transform(x, 0, 0, y, 0, 0)
\* Transform.identity, Transform.shearing
Identity == Transform(1, 0, 0, 1, 0, 0)
Shearing(x, y) == Transform(1, y, x, 1, 0, 0)
\* Point.__matmul__
PointMatMul(p, o) == Point(o.a * p[1] + o.c * p[2] + o.e, o.b * p[1] + o.d * p[2] + o.f)
\* a product with its operands taken in the other order
MatMul_Reversed(s, o) ==
  Transform(o.a * s.a + o.b * s.c, o.a * s.b + o.b * s.d,
            o.c * s.a + o.d * s.c, o.c * s.b + o.d * s.d,
            o.e * s.a + o.f * s.c + s.e, o.e * s.b + o.f * s.d + s.f)

\* Transform.__matmul__
MatMul(s, o) ==
  Transform(s.a * o.a + s.b * o.c, s.a * o.b + s.b * o.d,
            s.c * o.a + s.d * o.c, s.c * o.b + s.d * o.d,
            s.e * o.a + s.f * o.c + o.e, s.e * o.b + s.f * o.d + o.f)
About(tf, x, y) == MatMul(MatMul(Translation(0 - x, 0 - y), tf), Translation(x, y))
Scale(tf, x) == MatMul(tf, Scaling(x, x))
\* Transform.render: the six coefficients and cm
TransformRender(tf) ==
  <<LexInt(tf.a), LexInt(tf.b), LexInt(tf.c), LexInt(tf.d), LexInt(tf.e), LexInt(tf.f),
    Lex("cm")>>

(***************************************************************************)
(* Arc.subdivde_sweep.  Angles are whole numbers of the unit that makes the *)
(* division of a sweep of whole degrees by 1 to 5 chunks exact; the       *)
(* trigonometry of the control points is not computed: a yielded segment   *)
(* is the record of its rotation offset and its size.                      *)
(***************************************************************************)
Abs(n) == IF n < 0 THEN 0 - n ELSE n

UnitsPerDegree == 3 * 4 * 5
\* quarterturn = math.pi / 2
QuarterTurn == 90 * UnitsPerDegree

\* a chunk count that rounds down and adds one
Chunks_FloorPlusOne(sweep_angle) == sweep_angle \div QuarterTurn + 1

\* chunks = math.ceil(sweep_angle / quarterturn)
Chunks(sweep_angle) == (sweep_angle + QuarterTurn - 1) \div QuarterTurn

\* for _ in range(chunks): offset = sweep_angle - sweep_left; yield ...;
\* sweep_left -= sweep_segment
RECURSIVE SweepSegments(_, _, _, _)
SweepSegments(sweep_angle, sweep_left, sweep_segment, todo) ==
  IF todo = 0 THEN <<>>
  ELSE <<[offset |-> sweep_angle - sweep_left, size |-> sweep_segment]>>
         \o SweepSegments(sweep_angle, sweep_left - sweep_segment, sweep_segment, todo - 1)

\* Arc.subdivde_sweep(sweep_angle): the segments yielded; sweep_angle / chunks
\* raises ZeroDivisionError for a sweep of 0
SubdivideSweep(sweep_angle) ==
  IF Chunks(Abs(sweep_angle)) = 0 THEN Raise("ZeroDivisionError", <<>>)
  ELSE Ok(SweepSegments(Abs(sweep_angle), Abs(sweep_angle),
                        Abs(sweep_angle) \div Chunks(Abs(sweep_angle)),
                        Chunks(Abs(sweep_angle))))

(***************************************************************************)
(* Path elements and the scene.  An item of a context is a record          *)
(* [kind, pt, size, ref]: a primitive element with its point (and size,    *)
(* for a Rectangle), or a reference to the GraphicsContext or PaintedPath  *)
(* numbered ref.  Contexts and paths live in the sequences ctxs and paths, *)
(* an object being its index.                                              *)
(***************************************************************************)
Elem(kind, pt) == [kind |-> kind, pt |-> pt, size |-> <<0, 0>>, ref |-> 0]
Ref(kind, n) == [kind |-> kind, pt |-> <<0, 0>>, size |-> <<0, 0>>, ref |-> n]
NoElem == Elem("None", <<0, 0>>)
NoTransform == [a |-> 0, b |-> 0, c |-> 0, d |-> 0, e |-> 0, f |-> 0]

\* GraphicsContext(): clipping_path 0 is None, has_transform FALSE is None
NewGraphicsContext ==
  [style |-> GraphicsStyle, path_items |-> <<>>, has_transform |-> FALSE,
   transform |-> NoTransform, clipping_path |-> 0]

\* GraphicsContext.add_item on context cid of the heap h
AddItem(h, cid, item) ==
  [h EXCEPT !.ctxs[cid].path_items = Append(@, item)]

\* the implicit close appended without the path being marked closed
InsertImplicitCloseIfOpen_StaysOpen(h, pid) ==
  IF ~h.paths[pid].closed
    THEN [AddItem(h, h.paths[pid].close_context, Elem("ImplicitClose", <<0, 0>>))
            EXCEPT !.paths[pid].close_context = h.paths[pid].graphics_context]
    ELSE h

\* PaintedPath._insert_implicit_close_if_open
InsertImplicitCloseIfOpen(h, pid) ==
  IF ~h.paths[pid].closed
    THEN [AddItem(h, h.paths[pid].close_context, Elem("ImplicitClose", <<0, 0>>))
            EXCEPT !.paths[pid].close_context = h.paths[pid].graphics_context,
                   !.paths[pid].closed = TRUE]
    ELSE h

\* PaintedPath.move_to / move_relative
MoveTo(h, pid, kind, pt) ==
  [InsertImplicitCloseIfOpen(h, pid) EXCEPT !.paths[pid].starter_move = Elem(kind, pt)]

\* PaintedPath.__init__(x, y) (or ClippingPath.__init__) as path Len(paths)+1
\* with a fresh root context
NewPath(h, cls, pt) ==
  LET cid == Len(h.ctxs) + 1
      pid == Len(h.paths) + 1
      made == [h EXCEPT
                 !.ctxs = Append(@, NewGraphicsContext),
                 !.paths = Append(@, [cls |-> cls, root |-> cid, graphics_context |-> cid,
                                      closed |-> TRUE, close_context |-> cid,
                                      starter_move |-> NoElem])]
      moved == MoveTo(made, pid, "Move", pt)
  IN IF cls = "ClippingPath"
       THEN [moved EXCEPT !.ctxs[cid].style =
               SetPaintRule(@, Member("PathPaintRule", "n")).val]
       ELSE moved

\* PaintedPath.add_path_element
AddPathElement(h, pid, item) ==
  LET p == h.paths[pid]
      started ==
        IF p.starter_move # NoElem
          THEN [AddItem(h, p.graphics_context, p.starter_move)
                  EXCEPT !.paths[pid].closed = FALSE,
                         !.paths[pid].close_context = p.graphics_context,
                         !.paths[pid].starter_move = NoElem]
          ELSE h
  IN AddItem(started, p.graphics_context, item)

\* PaintedPath.close
ClosePath(h, pid) ==
  MoveTo([AddPathElement(h, pid, Elem("Close", <<0, 0>>)) EXCEPT !.paths[pid].closed = TRUE],
         pid, "RelativeMove", <<0, 0>>)

\* an element with a second point: the size of a Rectangle, the radii of an Arc
ElemSized(kind, pt, size) == [kind |-> kind, pt |-> pt, size |-> size, ref |-> 0]

\* PaintedPath.line_to / line_relative
PathLineTo(h, pid, pt) == AddPathElement(h, pid, Elem("Line", pt))
PathLineRelative(h, pid, pt) == AddPathElement(h, pid, Elem("RelativeLine", pt))

\* an arc_to that appends an Arc whatever the radii are
PathArcTo_AlwaysArc(h, pid, rx, ry, pt) ==
  AddPathElement(h, pid, ElemSized("Arc", pt, <<Abs(rx), Abs(ry)>>))

\* PaintedPath.arc_to(rx, ry, rotation, large_arc, positive_sweep, x, y)
PathArcTo(h, pid, rx, ry, pt) ==
  IF rx = 0 \/ ry = 0 THEN PathLineTo(h, pid, pt)
  ELSE AddPathElement(h, pid, ElemSized("Arc", pt, <<Abs(rx), Abs(ry)>>))

\* PaintedPath.arc_relative(rx, ry, rotation, large_arc, positive_sweep, dx, dy)
PathArcRelative(h, pid, rx, ry, pt) ==
  IF rx = 0 \/ ry = 0 THEN PathLineRelative(h, pid, pt)
  ELSE AddPathElement(h, pid, ElemSized("RelativeArc", pt, <<Abs(rx), Abs(ry)>>))

\* the rounded branch of PaintedPath.rectangle, rx and ry already absolute
RoundedRectangle(h, pid, x, y, w, ht, rx, ry) ==
  ClosePath(
    PathArcTo(
      PathLineTo(
        PathArcTo(
          PathLineTo(
            PathArcTo(
              PathLineTo(
                PathArcTo(
                  PathLineTo(MoveTo(h, pid, "Move", <<x + rx, y>>),
                             pid, <<x + w - rx, y>>),
                  pid, rx, ry, <<x + w, y + ry>>),
                pid, <<x + w, y + ht - ry>>),
              pid, rx, ry, <<x + w - rx, y + ht>>),
            pid, <<x + rx, y + ht>>),
          pid, rx, ry, <<x, y + ht - ry>>),
        pid, <<x, y + ry>>),
      pid, rx, ry, <<x + rx, y>>),
    pid)

\* a rectangle whose square corners are drawn as a polyline
PathRectangle_Polyline(h, pid, x, y, w, ht, rx, ry) ==
  IF rx = 0 \/ ry = 0
    THEN ClosePath(PathLineTo(PathLineTo(PathLineTo(MoveTo(h, pid, "Move", <<x, y>>),
                                                    pid, <<x + w, y>>),
                                         pid, <<x + w, y + ht>>),
                              pid, <<x, y + ht>>),
                   pid)
    ELSE RoundedRectangle(h, pid, x, y, w, ht, Abs(rx), Abs(ry))

\* PaintedPath.rectangle(x, y, w, h, rx, ry)
PathRectangle(h, pid, x, y, w, ht, rx, ry) ==
  IF rx = 0 \/ ry = 0
    THEN AddPathElement(InsertImplicitCloseIfOpen(h, pid), pid,
                        ElemSized("Rectangle", <<x, y>>, <<w, ht>>))
    ELSE RoundedRectangle(h, pid, x, y, w, ht, Abs(rx), Abs(ry))

\* entering the with block of PaintedPath.transform_group: a new context
\* with the transform becomes the path's current one
TransformGroupEnter(h, pid, transform) ==
  [h EXCEPT !.ctxs = Append(@, [NewGraphicsContext EXCEPT !.has_transform = TRUE,
                                                         !.transform = transform]),
            !.paths[pid].graphics_context = Len(h.ctxs) + 1]

\* leaving the block: the new context is added to the old one, which is
\* the current one again
TransformGroupExit(h, pid, old, new) ==
  [AddItem(h, old, Ref("GraphicsContext", new))
     EXCEPT !.paths[pid].graphics_context = old]

\* PaintedPath.clipping_path = clip
SetClippingPath(h, pid, clip) ==
  [h EXCEPT !.ctxs[h.paths[pid].root].clipping_path = clip]

\* PaintedPath.transform = tf
SetPathTransform(h, pid, tf) ==
  [h EXCEPT !.ctxs[h.paths[pid].root].has_transform = TRUE,
            !.ctxs[h.paths[pid].root].transform = tf]

(***************************************************************************)
(* Rendering.  A render threads the record rs through every call: the      *)
(* scene (ctxs, paths), the registry and its reverse table, path_gsds (the *)
(* ordered keys of the OrderedDict), last_item and whether a debug stream  *)
(* was passed.  A render list is a sequence of strings, a string the       *)
(* sequence of its lexemes.                                                *)
(***************************************************************************)
RECURSIVE Join(_)
\* " ".join(render_list)
Join(list) == IF list = <<>> THEN <<>> ELSE Head(list) \o Join(Tail(list))

\* list.insert(-1, x)
InsertBeforeLast(list, x) ==
  IF list = <<>> THEN <<x>>
  ELSE SubSeq(list, 1, Len(list) - 1) \o <<x>> \o <<list[Len(list)]>>

\* the truth value of a Python object; the Ellipsis INHERIT is true
Truthy(x) ==
  CASE x.tag = "bool" -> x.v
    [] x.tag = "num" -> x.v # 0
    [] x.tag = "None" -> FALSE
    [] OTHER -> TRUE

\* the render method of a primitive path element: [text, last]
RenderElement(e, style, last_item) ==
  CASE e.kind = "Move" ->
         [text |-> PointRender(e.pt) \o <<Lex("m")>>, last |-> e]
    [] e.kind = "RelativeMove" ->
         LET point == PointAdd(last_item.pt, e.pt)
         IN [text |-> PointRender(point) \o <<Lex("m")>>, last |-> Elem("Move", point)]
    [] e.kind = "Line" ->
         [text |-> PointRender(e.pt) \o <<Lex("l")>>, last |-> e]
    [] e.kind = "RelativeLine" ->
         LET point == PointAdd(last_item.pt, e.pt)
         IN [text |-> PointRender(point) \o <<Lex("l")>>, last |-> Elem("Line", point)]
    [] e.kind = "HorizontalLine" ->
         [text |-> PointRender(<<e.pt[1], last_item.pt[2]>>) \o <<Lex("l")>>,
          last |-> Elem("Line", <<e.pt[1], last_item.pt[2]>>)]
    [] e.kind = "RelativeHorizontalLine" ->
         [text |-> PointRender(<<last_item.pt[1] + e.pt[1], last_item.pt[2]>>)
                     \o <<Lex("l")>>,
          last |-> Elem("Line", <<last_item.pt[1] + e.pt[1], last_item.pt[2]>>)]
    [] e.kind = "VerticalLine" ->
         [text |-> PointRender(<<last_item.pt[1], e.pt[2]>>) \o <<Lex("l")>>,
          last |-> Elem("Line", <<last_item.pt[1], e.pt[2]>>)]
    [] e.kind = "RelativeVerticalLine" ->
         [text |-> PointRender(<<last_item.pt[1], last_item.pt[2] + e.pt[2]>>)
                     \o <<Lex("l")>>,
          last |-> Elem("Line", <<last_item.pt[1], last_item.pt[2] + e.pt[2]>>)]
    [] e.kind = "Arc" ->
         \* the curves that approximate the arc, ending in its end point;
         \* their control points are not computed
         [text |-> <<Lex("arc")>> \o PointRender(e.size) \o PointRender(e.pt)
                     \o <<Lex("c")>>,
          last |-> Elem("BezierCurve", e.pt)]
    [] e.kind = "RelativeArc" ->
         [text |-> <<Lex("arc")>> \o PointRender(e.size)
                     \o PointRender(PointAdd(last_item.pt, e.pt)) \o <<Lex("c")>>,
          last |-> Elem("BezierCurve", PointAdd(last_item.pt, e.pt))]
    [] e.kind = "Rectangle" ->
         [text |-> PointRender(e.pt) \o PointRender(e.size) \o <<Lex("re")>>,
          last |-> Elem("Line", e.pt)]
    [] e.kind = "ImplicitClose" ->
         [text |-> IF Truthy(style.auto_close) THEN <<Lex("h")>> ELSE <<>>,
          last |-> last_item]
    [] e.kind = "Close" -> [text |-> <<Lex("h")>>, last |-> last_item]

\* the colour-setting operator of a colour class, fill (lower) or stroke (upper)
ColorOperator(color, stroke) ==
  IF color.tag = "DeviceRGB" THEN (IF stroke THEN "RG" ELSE "rg")
  ELSE (IF stroke THEN "G" ELSE "g")

RECURSIVE ColorsRender(_)
ColorsRender(colors) ==
  IF colors = <<>> THEN <<>> ELSE <<LexNum(Head(colors))>> \o ColorsRender(Tail(colors))

NoEmit(x) == x = None \/ x = INHERIT

\* the name written into the operator string but not recorded
GsdsAdd_Dropped(gsds, name) == gsds

\* path_gsds[name] = None
GsdsAdd(gsds, name) ==
  IF \E i \in 1..Len(gsds) : gsds[i] = name THEN gsds ELSE Append(gsds, name)

\* the value of a paint rule or clipping intersection rule written out
PaintRuleValue(rule) == IF rule.tag = "PathPaintRule" THEN rule.v ELSE "AttributeError"

\* ClippingPathIntersectionRule[intersection_rule.name].value
ClipRuleValue(rule) ==
  IF rule = INHERIT THEN "W"
  ELSE IF rule.v = "evenodd" THEN "W*" ELSE "W"

\* if rendered: render_list.append(rendered), with the state the item left
Appended(r, list) ==
  [rs |-> r.rs, list |-> IF r.text # <<>> THEN Append(list, r.text) ELSE list]

\* return " ".join(render_list), last_item
Joined(r) == [rs |-> r.rs, text |-> Join(r.list)]

\* the paint operator appended after the closing Q instead of inserted
InsertPaint_Appended(r, paint_rule) ==
  [rs |-> r.rs, list |-> Append(r.list, <<Lex(PaintRuleValue(paint_rule))>>)]

\* render_list.insert(-1, paint_rule.value)
InsertPaint(r, paint_rule) ==
  [rs |-> r.rs, list |-> InsertBeforeLast(r.list, <<Lex(PaintRuleValue(paint_rule))>>)]

\* render_list.append(intersection_rule.value); append(paint_rule.value)
AppendClip(r, merged_style) ==
  [rs |-> r.rs,
   list |-> r.list \o <<<<Lex(ClipRuleValue(merged_style.intersection_rule))>>,
                        <<Lex(PaintRuleValue(ResolvePaintRule(merged_style)))>>>>]

\* Arc._approximate_arc with the arc's end point on the end point of the
\* element before it: prime is (0, 0), so rxpy2 + rypx2, the divisor of the
\* radicand of centerprime, is 0.0 and the division raises ZeroDivisionError.
\* RelativeArc.render makes the Arc to last_item.end_point + self.end.
ArcDivides(e, last_item) ==
  \/ e.kind = "Arc" /\ e.pt = last_item.pt
  \/ e.kind = "RelativeArc" /\ PointAdd(last_item.pt, e.pt) = last_item.pt

\* an element render whose returned last_item is dropped
ElementRendered_LastDropped(rs, r) == [rs |-> rs, text |-> r.text]

\* what the render of a primitive element returns, last_item in the state
ElementRendered(rs, r) == [rs |-> [rs EXCEPT !.last = r.last], text |-> r.text]

\* sdict is not None: path_gsds[sdict] = None, with the registry as left
WithStyleDict(rs, g) ==
  [rs EXCEPT !.registry = g.registry, !.lookup = g.lookup,
             !.gsds = IF g.name # None THEN GsdsAdd(@, g.name) ELSE @]

\* "<name> gs"
GsOperator(name) ==
  IF name # None THEN <<RenderPdfPrimitive(name) \o <<Lex("gs")>>>> ELSE <<>>

\* the colour components and the colour operator
ColorOperators(color, stroke) ==
  IF ~NoEmit(color)
    THEN <<ColorsRender(color.v.colors) \o <<Lex(ColorOperator(color, stroke))>>>>
    ELSE <<>>

\* "<dash pattern> <dash phase> d"
DashOperator(style) ==
  IF ~NoEmit(GetProp(style, "stroke_dash_pattern"))
    THEN <<RenderPdfPrimitive(GetProp(style, "stroke_dash_pattern"))
             \o <<LexNum(NumVal(GetProp(style, "stroke_dash_phase"))), Lex("d")>>>>
    ELSE <<>>

\* the strings build_render_list writes for the context's own style
StyleOperators(style, name) ==
  GsOperator(name) \o ColorOperators(style.fill_color, FALSE)
    \o ColorOperators(style.stroke_color, TRUE) \o DashOperator(style)

\* a frame that saves the graphics state and never restores it
Framed_NotRestored(r, cid, push_stack) ==
  [rs |-> r.rs,
   list |-> (IF push_stack THEN <<<<Lex("q")>>>> ELSE <<>>)
              \o (IF r.rs.ctxs[cid].has_transform
                    THEN <<TransformRender(r.rs.ctxs[cid].transform)>> ELSE <<>>)
              \o r.list]

\* render_list.insert(0, transform.render(last_item)[0]), then q ... Q
Framed(r, cid, push_stack) ==
  [rs |-> r.rs,
   list |-> (IF push_stack THEN <<<<Lex("q")>>>> ELSE <<>>)
              \o (IF r.rs.ctxs[cid].has_transform
                    THEN <<TransformRender(r.rs.ctxs[cid].transform)>> ELSE <<>>)
              \o r.list
              \o (IF push_stack THEN <<<<Lex("Q")>>>> ELSE <<>>)]

RECURSIVE BuildRenderList(_, _, _, _)
RECURSIVE RenderItem(_, _, _)

RECURSIVE RenderItems(_, _, _, _, _)
\* the loop over path_items[i..n] of context cid; r is [rs, list], evaluated
\* before the next item is rendered
RenderItems(r, cid, style, i, n) ==
  IF i > n \/ Len(r.list) < 0 THEN r
  ELSE RenderItems(Appended(RenderItem(r.rs, r.rs.ctxs[cid].path_items[i], style), r.list),
                   cid, style, i + 1, n)

\* the item loops of build_render_list: with a debug stream path_items[:-1]
\* and then path_items[-1], without one all of path_items
ItemsRendered(r, cid, style) ==
  IF r.rs.debug
    THEN RenderItems(RenderItems(r, cid, style, 1, Len(r.rs.ctxs[cid].path_items) - 1),
                     cid, style,
                     Len(r.rs.ctxs[cid].path_items), Len(r.rs.ctxs[cid].path_items))
    ELSE RenderItems(r, cid, style, 1, Len(r.rs.ctxs[cid].path_items))

\* if rendered_cpath: render_list.append(rendered_cpath); the last_item the
\* clipping path returns is dropped
ClipAppended(x, last, list) ==
  [rs |-> [x.rs EXCEPT !.last = last],
   list |-> IF x.text # <<>> THEN Append(list, x.text) ELSE list]

\* the clipping path of the context, if it has one, rendered first
ClipRendered(rs, cid, merged_style, list) ==
  IF rs.ctxs[cid].clipping_path # 0
    THEN ClipAppended(RenderItem(rs, Ref("PaintedPath", rs.ctxs[cid].clipping_path),
                                 merged_style),
                      rs.last, list)
    ELSE [rs |-> rs, list |-> list]

\* GraphicsContext.build_render_list(path_gsds, style, last_item,
\* debug_stream, pfx, _push_stack) from the interned style g on
BuildStyled(rs, cid, merged_style, g, push_stack) ==
  Framed(ItemsRendered(ClipRendered(WithStyleDict(rs, g), cid, merged_style,
                                    StyleOperators(rs.ctxs[cid].style, g.name)),
                       cid, merged_style),
         cid, push_stack)

\* a build_render_list that interns the dictionary of the merged style
BuildRenderList_MergedDict(rs, cid, style, push_stack) ==
  IF rs.ctxs[cid].path_items = <<>> THEN [rs |-> rs, list |-> <<>>]
  ELSE BuildStyled(rs, cid, Merge(style, rs.ctxs[cid].style).val,
                   GetOrSetStyleDict(rs.registry, rs.lookup,
                                     Merge(style, rs.ctxs[cid].style).val),
                   push_stack)

\* GraphicsContext.build_render_list: [rs, list]
BuildRenderList(rs, cid, style, push_stack) ==
  IF rs.ctxs[cid].path_items = <<>> THEN [rs |-> rs, list |-> <<>>]
  ELSE BuildStyled(rs, cid, Merge(style, rs.ctxs[cid].style).val,
                   GetOrSetStyleDict(rs.registry, rs.lookup, rs.ctxs[cid].style),
                   push_stack)

\* PaintedPath.render after _insert_implicit_close_if_open
PaintedPathRender(rs, pid, style) ==
  Joined(InsertPaint(BuildRenderList(rs, rs.paths[pid].root, style, TRUE),
                     ResolvePaintRule(Merge(style, rs.ctxs[rs.paths[pid].root].style).val)))

\* ClippingPath.render
ClippingPathRender(rs, pid, style) ==
  Joined(AppendClip(BuildRenderList(rs, rs.paths[pid].root, style, FALSE),
                    Merge(style, rs.ctxs[rs.paths[pid].root].style).val))

\* item.render(path_gsds, style, last_item) (render_debug when rs.debug) for
\* an item of a context or of the drawing: [rs, text]
RenderItem(rs, item, style) ==
  IF rs.raised # ""
    THEN [rs |-> rs, text |-> <<>>]
  ELSE IF item.kind = "GraphicsContext"
    THEN Joined(BuildRenderList(rs, item.ref, style, TRUE))
  ELSE IF item.kind = "PaintedPath" /\ rs.paths[item.ref].cls = "PaintedPath"
    THEN PaintedPathRender(InsertImplicitCloseIfOpen(rs, item.ref), item.ref, style)
  ELSE IF item.kind = "PaintedPath"
    THEN ClippingPathRender(rs, item.ref, style)
  ELSE IF ArcDivides(item, rs.last)
    THEN [rs |-> [rs EXCEPT !.raised = "ZeroDivisionError"], text |-> <<>>]
  ELSE ElementRendered(rs, RenderElement(item, style, rs.last))

\* a base style whose paint rule is DONT_PAINT instead of AUTO
BaseStyle_DontPaint ==
  SetIntersectionRule(
    SetPaintRule(SetAutoClose(GraphicsStyle, Bool(TRUE)).val,
                 Member("PathPaintRule", "n")).val,
    Member("IntersectionRule", "nonzero")).val

\* a base style whose intersection rule is left to inherit
BaseStyle_NoIntersectionRule ==
  SetPaintRule(SetAutoClose(GraphicsStyle, Bool(TRUE)).val,
               Member("PathPaintRule", "auto")).val

\* the base style DrawingContext._setup_render_prereqs builds for a render
BaseStyle ==
  SetIntersectionRule(
    SetPaintRule(SetAutoClose(GraphicsStyle, Bool(TRUE)).val,
                 Member("PathPaintRule", "auto")).val,
    Member("IntersectionRule", "nonzero")).val

(***************************************************************************)
(* DrawingContext.                                                         *)
(***************************************************************************)
\* the transform centred on the wrong axis: the flip about y = 0
BaseTransform_FlipAboutZero(scale, height) ==
  Scale(Scaling(1, 0 - 1), scale)

\* Transform.scaling(x=1, y=-1).about(x=0, y=height / 2).scale(scale).  The
\* division is a true division: the translation part of about() is linear in
\* the centre, so it is computed about (0, height) and halved, which is exact
\* for odd heights as well.
BaseTransform(scale, height) ==
  Scale([About(Scaling(1, 0 - 1), 0, height)
           EXCEPT !.e = @ \div 2, !.f = @ \div 2], scale)

\* a string of the drawing's render list; render_debug also appends the
\* (rendered, last_item) tuples its first loop leaves unpacked
StrEntry(text) == [str |-> TRUE, text |-> text]
TupleEntry(text) == [str |-> FALSE, text |-> text]

RECURSIVE JoinEntries(_)
JoinEntries(list) ==
  IF list = <<>> THEN <<>> ELSE Head(list).text \o JoinEntries(Tail(list))

\* " ".join(render_list) raises TypeError on an entry that is no str
JoinOrRaise(list, gsds) ==
  IF \E i \in 1..Len(list) : ~list[i].str
    THEN [err |-> "TypeError", out |-> <<>>, gsds |-> <<>>]
    ELSE [err |-> "", out |-> JoinEntries(list), gsds |-> gsds]

\* the state a render starts from; raised names the exception an element has
\* raised, after which nothing more of the render runs
RenderState(h, registry, lookup, first_point, debug) ==
  [ctxs |-> h.ctxs, paths |-> h.paths, registry |-> registry, lookup |-> lookup,
   gsds |-> <<>>, last |-> Elem("Move", first_point), debug |-> debug, raised |-> ""]

\* render_list = ["q", scale]
DrawingHead(args) ==
  <<StrEntry(<<Lex("q")>>),
    StrEntry(TransformRender(BaseTransform(args.scale, args.height)))>>

\* if rendered: render_list.append(rendered)
DrawAppended(x, list) ==
  [rs |-> x.rs, list |-> IF x.text # <<>> THEN Append(list, StrEntry(x.text)) ELSE list]

\* the tuple a child returned appended whole, last_item as it was
TupleAppended(x, last, list) ==
  [rs |-> [x.rs EXCEPT !.last = last], list |-> Append(list, TupleEntry(x.text))]

RECURSIVE DrawItems(_, _, _)
\* the loop of DrawingContext.render over _subitems[i..]; r is [rs, list]
DrawItems(r, items, i) ==
  IF i > Len(items) THEN r
  ELSE DrawItems(DrawAppended(RenderItem(r.rs, items[i], BaseStyle), r.list), items, i + 1)

RECURSIVE DrawItemsDebug(_, _, _, _)
\* the first loop of DrawingContext.render_debug over _subitems[:-1]
DrawItemsDebug(r, items, i, n) ==
  IF i > n THEN r
  ELSE DrawItemsDebug(TupleAppended(RenderItem(r.rs, items[i], BaseStyle), r.rs.last, r.list),
                      items, i + 1, n)

\* the return value of a render with the state it leaves
Returned(rs, j) ==
  IF rs.raised # ""
    THEN [rs |-> rs, err |-> rs.raised, out |-> <<>>, gsds |-> <<>>]
    ELSE [rs |-> rs, err |-> j.err, out |-> j.out, gsds |-> j.gsds]

\* render_list.append("Q"); return " ".join(render_list), path_gsds
DrawingResult(r) ==
  Returned(r.rs, JoinOrRaise(Append(r.list, StrEntry(<<Lex("Q")>>)), r.rs.gsds))

\* return "", OrderedDict()
EmptyResult(rs) == [rs |-> rs, err |-> "", out |-> <<>>, gsds |-> <<>>]

\* a render that writes the frame of the drawing even without items
DrawingRender_NoEmptyCheck(h, items, registry, lookup, args) ==
  DrawingResult(DrawItems([rs |-> RenderState(h, registry, lookup, args.first_point, FALSE),
                           list |-> DrawingHead(args)], items, 1))

\* DrawingContext.render(first_point, scale, height): [rs, err, out, gsds]
DrawingRender(h, items, registry, lookup, args) ==
  IF items = <<>>
    THEN EmptyResult(RenderState(h, registry, lookup, args.first_point, FALSE))
    ELSE DrawingResult(
           DrawItems([rs |-> RenderState(h, registry, lookup, args.first_point, FALSE),
                      list |-> DrawingHead(args)], items, 1))

\* the second call site of render_debug, on _subitems[-1]
DrawLastDebug(r, items) ==
  DrawingResult(DrawAppended(RenderItem(r.rs, items[Len(items)], BaseStyle), r.list))

\* DrawingContext.render_debug(first_point, scale, height, debug_stream)
DrawingRenderDebug(h, items, registry, lookup, args) ==
  IF items = <<>>
    THEN EmptyResult(RenderState(h, registry, lookup, args.first_point, TRUE))
    ELSE DrawLastDebug(
           DrawItemsDebug([rs |-> RenderState(h, registry, lookup, args.first_point, TRUE),
                           list |-> DrawingHead(args)], items, 1, Len(items) - 1),
           items)

(***************************************************************************)
(* State.                                                                  *)
(***************************************************************************)
VARIABLES
  styles,     \* the styles of a merge chain: <<the render's base style, the
              \* style of a context, the style of a context nested in it>>
  setCalls,   \* the number of property assignments made so far
  lastErr,    \* the exception the last assignment raised, "" when none
  ctxs,       \* every GraphicsContext made, by number
  paths,      \* every PaintedPath made, by number
  subitems,   \* DrawingContext._subitems
  registry,   \* _global_style_registry
  nameLookup, \* _global_style_name_lookup
  ops,        \* the number of path-building and style calls made so far
  renders,    \* the number of render calls made so far
  result,     \* the last render call and what it returned
  prior,      \* the render call right before it, on the same scene and arguments
  groups,     \* the transform_group blocks entered and not left, innermost last
  tfs,        \* the transforms and the point of a composition, and its results
  threads,    \* the threads inside _get_or_set_style_dict: where each one is, the
              \* dictionary and name it holds, and the names it was returned
  sweep       \* the last call of Arc.subdivde_sweep: its angle and what it yielded

styleVars == <<styles, setCalls, lastErr>>
sceneVars == <<ctxs, paths, subitems, registry, nameLookup, ops, renders, result, prior>>
restVars == <<groups, tfs, threads, sweep>>
vars == <<styles, setCalls, lastErr, ctxs, paths, subitems, registry, nameLookup, ops,
          renders, result, prior, groups, tfs, threads, sweep>>

\* the number of property assignments explored
MaxSetCalls == 2

\* the values assigned to each property
SetterInputs(prop) ==
  CASE prop = "paint_rule" ->
         {INHERIT, None, Member("PathPaintRule", "auto"), Str("stroke"), Str("bogus")}
    [] prop = "auto_close" -> {Bool(FALSE), None}
    [] prop = "intersection_rule" -> {Str("EvenOdd"), None}
    [] prop = "fill_color" ->
         {INHERIT, None, Str("#F00"), DeviceGray(50000, Num(50000)), Str("F00")}
    [] prop = "fill_opacity" -> {INHERIT, Num(25000), Num(150000)}
    [] prop = "stroke_color" -> {None, Str("#0000FF80"), Num(0)}
    [] prop = "stroke_opacity" -> {Num(50001), Str("0.5")}
    [] prop = "blend_mode" -> {Str("multiply"), None}
    [] prop = "stroke_width" -> {None, Num(200000), Str("2")}
    [] prop = "stroke_cap_style" -> {Str("round"), Num(300000)}
    [] prop = "stroke_join_style" -> {Num(200000)}
    [] prop = "stroke_miter_limit" -> {Num(400000), None}
    [] prop = "stroke_dash_pattern" ->
         {INHERIT, None, Tuple(<<Num(100000), Num(200000)>>), Str("dashed")}
    [] prop = "stroke_dash_phase" -> {INHERIT, Num(100000), None}

Properties == {MERGE_PROPERTIES[i] : i \in 1..Len(MERGE_PROPERTIES)}

\* the render arguments (first_point, scale, height) explored
RenderArgs ==
  {[first_point |-> Point(0, 0), scale |-> 1, height |-> 10],
   [first_point |-> Point(2, 1), scale |-> 2, height |-> 10]}

NoResult ==
  [call |-> "none", args |-> [first_point |-> Point(0, 0), scale |-> 1, height |-> 10],
   err |-> "", out |-> <<>>, gsds |-> <<>>]

InitScene ==
  /\ ctxs = <<>>
  /\ paths = <<>>
  /\ subitems = <<>>
  /\ registry = InitialRegistry
  /\ nameLookup = InitialNameLookup
  /\ ops = 0
  /\ renders = 0
  /\ result = NoResult
  /\ prior = NoResult

InitStyles ==
  /\ styles = <<BaseStyle, GraphicsStyle, GraphicsStyle>>
  /\ setCalls = 0
  /\ lastErr = ""

\* no transform_group block entered, no composition made
NoComposition ==
  [t1 |-> NoTransform, t2 |-> NoTransform, t3 |-> NoTransform, p |-> <<0, 0>>,
   composed |-> FALSE, left |-> NoTransform, right |-> NoTransform,
   identity_left |-> NoTransform, identity_right |-> NoTransform,
   applied |-> FALSE, one_by_one |-> <<0, 0>>, at_once |-> <<0, 0>>]

\* the threads that render at the same time, and the calls each one makes
MaxThreads == 2
MaxCalls == 2
Threads == 1..MaxThreads

\* no thread is inside _get_or_set_style_dict
NoThreads ==
  [t \in Threads |-> [pc |-> "idle", sdict |-> <<>>, name |-> None, calls |-> 0,
                      issued |-> {}]]

\* Arc.subdivde_sweep not called yet
NoSweep == [called |-> FALSE, angle |-> 0, err |-> "", segments |-> <<>>]

InitRest ==
  /\ groups = <<>>
  /\ tfs = NoComposition
  /\ threads = NoThreads
  /\ sweep = NoSweep

InitStyle == InitStyles /\ InitScene /\ InitRest

\* style.<prop> = value on the i-th style
Assign(i, prop, value) ==
  /\ setCalls < MaxSetCalls
  /\ LET r == SetProp(styles[i], prop, value)
     IN /\ styles' = [styles EXCEPT ![i] = r.val]
        /\ lastErr' = r.err
  /\ setCalls' = setCalls + 1
  /\ UNCHANGED sceneVars
  /\ UNCHANGED restVars

NextStyle ==
  \E i \in 1..3 : \E prop \in Properties : \E value \in SetterInputs(prop) :
    Assign(i, prop, value)

SpecStyle == InitStyle /\ [][NextStyle]_vars

(***************************************************************************)
(* The drawing: paths are made and added to the DrawingContext, built and  *)
(* styled, and the drawing is rendered.                                    *)
(***************************************************************************)
MaxPaths == 2
MaxOps == 3
MaxRenders == 2

\* the points the path-building calls are given
PathPoints == {Point(3, 4)}

\* the (property, value) assignments made to a path's style
PathStyleInputs ==
  {<<"fill_color", None>>, <<"fill_color", Str("#F00")>>,
   <<"stroke_color", None>>, <<"stroke_color", Str("#0000FF80")>>,
   <<"stroke_width", None>>, <<"stroke_width", Num(200000)>>,
   <<"auto_close", Bool(FALSE)>>}

Heap == [ctxs |-> ctxs, paths |-> paths]

\* a call that changes the scene: the next render is a first render again
Built(h) ==
  /\ ctxs' = h.ctxs
  /\ paths' = h.paths
  /\ ops' = ops + 1
  /\ result' = NoResult
  /\ prior' = NoResult
  /\ UNCHANGED <<registry, nameLookup, renders, styles, setCalls, lastErr, groups, tfs, threads, sweep>>

\* path = PaintedPath(x, y); drawing.add_item(path)
AddPath(pt) ==
  /\ Len(paths) < MaxPaths
  /\ subitems' = Append(subitems, Ref("PaintedPath", Len(paths) + 1))
  /\ ctxs' = NewPath(Heap, "PaintedPath", pt).ctxs
  /\ paths' = NewPath(Heap, "PaintedPath", pt).paths
  /\ result' = NoResult
  /\ prior' = NoResult
  /\ UNCHANGED <<registry, nameLookup, ops, renders, styles, setCalls, lastErr, groups, tfs, threads, sweep>>

\* path.line_to(x, y)
LineTo(pid, pt) ==
  /\ ops < MaxOps
  /\ Built(AddPathElement(Heap, pid, Elem("Line", pt)))
  /\ UNCHANGED subitems

\* path.line_relative(dx, dy)
LineRelative(pid, pt) ==
  /\ ops < MaxOps
  /\ Built(AddPathElement(Heap, pid, Elem("RelativeLine", pt)))
  /\ UNCHANGED subitems

\* path.move_to(x, y)
PathMoveTo(pid, pt) ==
  /\ ops < MaxOps
  /\ Built(MoveTo(Heap, pid, "Move", pt))
  /\ UNCHANGED subitems

\* path.close()
Close(pid) ==
  /\ ops < MaxOps
  /\ Built(ClosePath(Heap, pid))
  /\ UNCHANGED subitems

\* path.style.<prop> = value
SetStyle(pid, prop, value) ==
  /\ ops < MaxOps
  /\ Built([Heap EXCEPT !.ctxs[paths[pid].root].style = SetProp(@, prop, value).val])
  /\ UNCHANGED subitems

\* what a render call leaves behind
Rendered(call, args, r) ==
  /\ ctxs' = r.rs.ctxs
  /\ paths' = r.rs.paths
  /\ registry' = r.rs.registry
  /\ nameLookup' = r.rs.lookup
  /\ renders' = renders + 1
  /\ result' = [call |-> call, args |-> args, err |-> r.err, out |-> r.out, gsds |-> r.gsds]
  /\ prior' = IF result.call # "none" /\ result.args = args THEN result ELSE NoResult
  /\ UNCHANGED <<subitems, ops, styles, setCalls, lastErr, groups, tfs, threads, sweep>>

\* drawing.render(first_point, scale, height)
Render(args) ==
  /\ renders < MaxRenders
  /\ Rendered("render", args, DrawingRender(Heap, subitems, registry, nameLookup, args))

\* drawing.render_debug(first_point, scale, height, debug_stream)
RenderDebug(args) ==
  /\ renders < MaxRenders
  /\ Rendered("render_debug", args,
              DrawingRenderDebug(Heap, subitems, registry, nameLookup, args))

\* drawing = DrawingContext(): a new drawing, the module's registry as it is
NewDrawing ==
  /\ subitems # <<>>
  /\ Len(paths) < MaxPaths
  /\ subitems' = <<>>
  /\ result' = NoResult
  /\ prior' = NoResult
  /\ UNCHANGED <<ctxs, paths, registry, nameLookup, ops, renders, styles, setCalls, lastErr, groups, tfs, threads, sweep>>

Init == InitStyles /\ InitScene /\ InitRest

Next ==
  \/ NewDrawing
  \/ \E pt \in PathPoints : AddPath(pt)
  \/ \E pid \in 1..Len(paths), pt \in PathPoints : LineTo(pid, pt)
  \/ \E pid \in 1..Len(paths), pt \in PathPoints : LineRelative(pid, pt)
  \/ \E pid \in 1..Len(paths), pt \in PathPoints : PathMoveTo(pid, pt)
  \/ \E pid \in 1..Len(paths) : Close(pid)
  \/ \E pid \in 1..Len(paths), pv \in PathStyleInputs : SetStyle(pid, pv[1], pv[2])
  \/ \E args \in RenderArgs : Render(args)
  \/ \E args \in RenderArgs : RenderDebug(args)

Spec == Init /\ [][Next]_vars

(***************************************************************************)
(* Path building (SpecPath): the calls that build the subpaths of a        *)
(* PaintedPath, transform_group blocks included, and the render of the     *)
(* drawing once every block is left.                                       *)
(***************************************************************************)
\* the end point given to arc_to and arc_relative, and the corner radii
ArcPoint == Point(6, 2)
Radii == {0, 1}

\* the transform given to transform_group
GroupTransform == Translation(1, 0)

\* path.rectangle(x, y, w, h, rx, ry)
Rectangle(pid, rx, ry) ==
  /\ ops < MaxOps
  /\ Built(PathRectangle(Heap, pid, 1, 1, 4, 3, rx, ry))
  /\ UNCHANGED subitems

\* path.arc_to(rx, ry, rotation, large_arc, positive_sweep, x, y)
ArcTo(pid, rx, ry) ==
  /\ ops < MaxOps
  /\ Built(PathArcTo(Heap, pid, rx, ry, ArcPoint))
  /\ UNCHANGED subitems

\* path.arc_relative(rx, ry, rotation, large_arc, positive_sweep, dx, dy)
ArcRelative(pid, rx, ry) ==
  /\ ops < MaxOps
  /\ Built(PathArcRelative(Heap, pid, rx, ry, ArcPoint))
  /\ UNCHANGED subitems

\* with path.transform_group(transform): the block is entered
GroupEntered(pid) ==
  /\ ctxs' = TransformGroupEnter(Heap, pid, GroupTransform).ctxs
  /\ paths' = TransformGroupEnter(Heap, pid, GroupTransform).paths
  /\ groups' = Append(groups, [path |-> pid, old |-> paths[pid].graphics_context,
                               new |-> Len(ctxs) + 1])
  /\ ops' = ops + 1
  /\ result' = NoResult
  /\ prior' = NoResult
  /\ UNCHANGED <<subitems, registry, nameLookup, renders, styles, setCalls, lastErr, tfs, threads, sweep>>

\* the innermost block entered is left
GroupEnter(pid) ==
  /\ ops < MaxOps
  /\ GroupEntered(pid)

GroupExit ==
  /\ groups # <<>>
  /\ ctxs' = TransformGroupExit(Heap, groups[Len(groups)].path, groups[Len(groups)].old,
                                groups[Len(groups)].new).ctxs
  /\ paths' = TransformGroupExit(Heap, groups[Len(groups)].path, groups[Len(groups)].old,
                                 groups[Len(groups)].new).paths
  /\ groups' = SubSeq(groups, 1, Len(groups) - 1)
  /\ result' = NoResult
  /\ prior' = NoResult
  /\ UNCHANGED <<subitems, registry, nameLookup, ops, renders, styles, setCalls, lastErr, tfs, threads, sweep>>

\* the arguments of the renders of a path under construction
PathRenderArgs == [first_point |-> Point(0, 0), scale |-> 1, height |-> 10]

\* drawing.render(first_point, scale, height) outside every block
RenderOutside(args) ==
  /\ groups = <<>>
  /\ Render(args)

\* the path under construction: the one added last
CurrentPath == {pid \in 1..Len(paths) : pid = Len(paths)}

NextPath ==
  \/ \E pt \in PathPoints : AddPath(pt)
  \/ \E pid \in CurrentPath, pt \in PathPoints : LineTo(pid, pt)
  \/ \E pid \in CurrentPath, pt \in PathPoints : LineRelative(pid, pt)
  \/ \E pid \in CurrentPath : Close(pid)
  \/ \E pid \in CurrentPath, rx \in Radii, ry \in Radii : Rectangle(pid, rx, ry)
  \/ \E pid \in CurrentPath, rx \in Radii, ry \in Radii : ArcTo(pid, rx, ry)
  \/ \E pid \in CurrentPath, rx \in Radii, ry \in Radii : ArcRelative(pid, rx, ry)
  \/ \E pid \in CurrentPath : GroupEnter(pid)
  \/ GroupExit
  \/ RenderOutside(PathRenderArgs)

SpecPath == Init /\ [][NextPath]_vars

(***************************************************************************)
(* Clipping (SpecClip): painted paths and clipping paths with their own    *)
(* transforms and styles, the clipping paths set on the painted ones.      *)
(***************************************************************************)
\* the transforms given to path.transform
PathTransforms == {Translation(5, 0), Scaling(2, 2)}

\* the style assignments made to painted and clipping paths
ClipStyleInputs ==
  {<<"paint_rule", INHERIT>>, <<"paint_rule", Member("PathPaintRule", "auto")>>,
   <<"auto_close", INHERIT>>,
   <<"intersection_rule", Member("IntersectionRule", "evenodd")>>,
   <<"stroke_width", Num(200000)>>}

PaintedPaths == {pid \in 1..Len(paths) : paths[pid].cls = "PaintedPath"}
ClippingPaths == {pid \in 1..Len(paths) : paths[pid].cls = "ClippingPath"}

\* clip = ClippingPath(x, y)
NewClippingPath(pt) ==
  /\ Len(paths) < MaxPaths
  /\ ctxs' = NewPath(Heap, "ClippingPath", pt).ctxs
  /\ paths' = NewPath(Heap, "ClippingPath", pt).paths
  /\ result' = NoResult
  /\ prior' = NoResult
  /\ UNCHANGED <<subitems, registry, nameLookup, ops, renders, styles, setCalls, lastErr,
                 groups, tfs, threads, sweep>>

\* the changes to the scene that are not counted as building calls
Assigned(h) ==
  /\ ctxs' = h.ctxs
  /\ paths' = h.paths
  /\ result' = NoResult
  /\ prior' = NoResult
  /\ UNCHANGED <<subitems, registry, nameLookup, ops, renders, styles, setCalls, lastErr,
                 groups, tfs, threads, sweep>>

\* path.clipping_path = clip, on a path that has none yet
ClipPath(pid, clip) ==
  /\ ctxs[paths[pid].root].clipping_path = 0
  /\ Assigned(SetClippingPath(Heap, pid, clip))

\* path.transform = tf, on a path or clipping path that has none yet
TransformPath(pid, tf) ==
  /\ ~ctxs[paths[pid].root].has_transform
  /\ Assigned(SetPathTransform(Heap, pid, tf))

NextClip ==
  \/ \E pt \in PathPoints : AddPath(pt)
  \/ \E pt \in PathPoints : NewClippingPath(pt)
  \/ \E pid \in PaintedPaths, clip \in ClippingPaths : ClipPath(pid, clip)
  \/ \E pid \in 1..Len(paths), tf \in PathTransforms : TransformPath(pid, tf)
  \/ \E pid \in 1..Len(paths), pt \in PathPoints : LineTo(pid, pt)
  \/ \E pid \in 1..Len(paths), kv \in ClipStyleInputs : SetStyle(pid, kv[1], kv[2])
  \/ RenderOutside(PathRenderArgs)

SpecClip == Init /\ [][NextClip]_vars

(***************************************************************************)
(* Chaining (SpecChain): relative and axis-parallel elements, whose points *)
(* are resolved at render time against the element rendered before them.   *)
(***************************************************************************)
\* the offsets and the coordinate given to the relative and axis-parallel calls
ChainOffsets == {Point(1, 2), Point(0 - 2, 1)}
AxisCoordinate == 7

\* the arguments of the renders of chained elements
ChainRenderArgs == [first_point |-> Point(2, 1), scale |-> 1, height |-> 10]

\* path.move_relative(x, y)
MoveRelative(pid, pt) ==
  /\ ops < MaxOps
  /\ Built(MoveTo(Heap, pid, "RelativeMove", pt))
  /\ UNCHANGED subitems

\* path.horizontal_line_to(x)
HorizontalLineTo(pid, x) ==
  /\ ops < MaxOps
  /\ Built(AddPathElement(Heap, pid, Elem("HorizontalLine", <<x, 0>>)))
  /\ UNCHANGED subitems

\* path.horizontal_line_relative(dx)
HorizontalLineRelative(pid, dx) ==
  /\ ops < MaxOps
  /\ Built(AddPathElement(Heap, pid, Elem("RelativeHorizontalLine", <<dx, 0>>)))
  /\ UNCHANGED subitems

\* path.vertical_line_to(y)
VerticalLineTo(pid, y) ==
  /\ ops < MaxOps
  /\ Built(AddPathElement(Heap, pid, Elem("VerticalLine", <<0, y>>)))
  /\ UNCHANGED subitems

\* path.vertical_line_relative(dy)
VerticalLineRelative(pid, dy) ==
  /\ ops < MaxOps
  /\ Built(AddPathElement(Heap, pid, Elem("RelativeVerticalLine", <<0, dy>>)))
  /\ UNCHANGED subitems

NextChain ==
  \/ \E pt \in PathPoints : AddPath(pt)
  \/ \E pid \in CurrentPath, pt \in ChainOffsets : MoveRelative(pid, pt)
  \/ \E pid \in CurrentPath, pt \in ChainOffsets : LineRelative(pid, pt)
  \/ \E pid \in CurrentPath : HorizontalLineTo(pid, AxisCoordinate)
  \/ \E pid \in CurrentPath : HorizontalLineRelative(pid, AxisCoordinate)
  \/ \E pid \in CurrentPath : VerticalLineTo(pid, AxisCoordinate)
  \/ \E pid \in CurrentPath : VerticalLineRelative(pid, AxisCoordinate)
  \/ \E pid \in CurrentPath : Close(pid)
  \/ \E pid \in CurrentPath : GroupEnter(pid)
  \/ GroupExit
  \/ RenderOutside(ChainRenderArgs)

SpecChain == Init /\ [][NextChain]_vars

(***************************************************************************)
(* Transforms (SpecTransform): three transforms and a point, composed with *)
(* @ and applied with @.                                                   *)
(***************************************************************************)
\* the transforms and points explored
TransformInputs ==
  {Identity, Translation(1, 2), Scaling(2, 3), Shearing(1, 2),
   Transform(0, 1, 0 - 1, 0, 0, 0), Transform(2, 0 - 1, 1, 3, 0 - 2, 1)}
PointInputs == {Point(0, 0), Point(3, 4), Point(0 - 1, 2)}

InitTransform ==
  /\ InitStyles
  /\ InitScene
  /\ groups = <<>>
  /\ threads = NoThreads
  /\ sweep = NoSweep
  /\ \E t1 \in TransformInputs, t2 \in TransformInputs, t3 \in TransformInputs,
        p \in PointInputs :
       tfs = [NoComposition EXCEPT !.t1 = t1, !.t2 = t2, !.t3 = t3, !.p = p]

\* (t1 @ t2) @ t3, t1 @ (t2 @ t3), Transform.identity() @ t1, t1 @ Transform.identity()
Compose ==
  /\ ~tfs.composed
  /\ tfs' = [tfs EXCEPT !.composed = TRUE,
                        !.left = MatMul(MatMul(tfs.t1, tfs.t2), tfs.t3),
                        !.right = MatMul(tfs.t1, MatMul(tfs.t2, tfs.t3)),
                        !.identity_left = MatMul(Identity, tfs.t1),
                        !.identity_right = MatMul(tfs.t1, Identity)]
  /\ UNCHANGED <<styleVars, sceneVars, groups, threads, sweep>>

\* (p @ t1) @ t2, p @ (t1 @ t2)
Apply ==
  /\ ~tfs.applied
  /\ tfs' = [tfs EXCEPT !.applied = TRUE,
                        !.one_by_one = PointMatMul(PointMatMul(tfs.p, tfs.t1), tfs.t2),
                        !.at_once = PointMatMul(tfs.p, MatMul(tfs.t1, tfs.t2))]
  /\ UNCHANGED <<styleVars, sceneVars, groups, threads, sweep>>

NextTransform == Compose \/ Apply

SpecTransform == InitTransform /\ [][NextTransform]_vars

(***************************************************************************)
(* Subpaths (SpecSubpath): one path built by moves, lines, closes and      *)
(* transform_group blocks, in any order.                                   *)
(***************************************************************************)
MaxBuildCalls == 4

\* a building call on the path
Build(h) ==
  /\ ops < MaxBuildCalls
  /\ Built(h)
  /\ UNCHANGED subitems

\* with path.transform_group(tf): the block is entered
EnterGroup(pid) ==
  /\ ops < MaxBuildCalls
  /\ GroupEntered(pid)

NextSubpath ==
  \/ \E pt \in PathPoints : paths = <<>> /\ AddPath(pt)
  \/ \E pid \in CurrentPath : Build(PathLineTo(Heap, pid, ArcPoint))
  \/ \E pid \in CurrentPath, pt \in PathPoints : Build(MoveTo(Heap, pid, "Move", pt))
  \/ \E pid \in CurrentPath : Build(ClosePath(Heap, pid))
  \/ \E pid \in CurrentPath : EnterGroup(pid)
  \/ GroupExit

SpecSubpath == Init /\ [][NextSubpath]_vars

(***************************************************************************)
(* The base transform (SpecBase): drawings of paths of relative elements,  *)
(* rendered from several first points, at several scales and heights.      *)
(***************************************************************************)
BaseFirstPoints == {Point(0, 0), Point(2, 1)}
BaseScales == {1, 2, 3}
BaseHeights == {7, 10}

\* the arguments of DrawingContext.render
BaseRenderArgs ==
  {[first_point |-> fp, scale |-> s, height |-> ht] :
     fp \in BaseFirstPoints, s \in BaseScales, ht \in BaseHeights}

NextBase ==
  \/ \E pt \in PathPoints : AddPath(pt)
  \/ \E pid \in CurrentPath, pt \in ChainOffsets : MoveRelative(pid, pt)
  \/ \E pid \in CurrentPath, pt \in ChainOffsets : LineRelative(pid, pt)
  \/ \E args \in BaseRenderArgs : Render(args)

SpecBase == Init /\ [][NextBase]_vars

(***************************************************************************)
(* Sweep subdivision (SpecSweep): Arc.subdivde_sweep called on the sweeps   *)
(* of whole degrees up to a full turn either way.                          *)
(***************************************************************************)
MaxSweepDegrees == 360
SweepDegrees == (0 - MaxSweepDegrees)..MaxSweepDegrees

\* list(Arc.subdivde_sweep(math.radians(degrees)))
Subdivide(degrees) ==
  /\ sweep' = [called |-> TRUE, angle |-> degrees * UnitsPerDegree,
               err |-> SubdivideSweep(degrees * UnitsPerDegree).err,
               segments |-> SubdivideSweep(degrees * UnitsPerDegree).val]
  /\ UNCHANGED <<styleVars, sceneVars, groups, tfs, threads>>

NextSweep == \E degrees \in SweepDegrees : Subdivide(degrees)

SpecSweep == Init /\ [][NextSweep]_vars

(***************************************************************************)
(* The registry under concurrent renders (SpecRegistry): each thread runs  *)
(* the statements of _get_or_set_style_dict one at a time; nothing in the  *)
(* function serializes them.                                               *)
(***************************************************************************)
\* the styles the contexts of the concurrent renders have
RegistryStyles ==
  {GraphicsStyle, SetProp(GraphicsStyle, "stroke_width", Num(200000)).val,
   SetProp(GraphicsStyle, "stroke_width", Num(300000)).val}

\* the function returns name to thread t
StyleDictReturned(t, name) ==
  [threads EXCEPT ![t].pc = "idle",
                  ![t].issued = @ \cup {[name |-> name, sdict |-> threads[t].sdict]}]

\* sdict = style.to_pdf_dict()
Serialize(t, style) ==
  /\ threads[t].pc = "idle"
  /\ threads[t].calls < MaxCalls
  /\ threads' = [threads EXCEPT ![t].pc = "lookup", ![t].sdict = ToPdfDict(style),
                                ![t].calls = @ + 1]
  /\ UNCHANGED <<styleVars, sceneVars, groups, tfs, sweep>>

\* if not sdict: return None
\* try: return _global_style_registry[sdict]; except KeyError: pass
Lookup(t) ==
  /\ threads[t].pc = "lookup"
  /\ threads' = IF threads[t].sdict = <<>>
                  THEN StyleDictReturned(t, None)
                ELSE IF DictHas(registry, threads[t].sdict)
                  THEN StyleDictReturned(t, DictGet(registry, threads[t].sdict))
                ELSE [threads EXCEPT ![t].pc = "name"]
  /\ UNCHANGED <<styleVars, sceneVars, groups, tfs, sweep>>

\* name = _new_global_style_name()
TakeName(t) ==
  /\ threads[t].pc = "name"
  /\ threads' = [threads EXCEPT ![t].pc = "forward", ![t].name = NewGlobalStyleName(registry)]
  /\ UNCHANGED <<styleVars, sceneVars, groups, tfs, sweep>>

\* _global_style_registry[sdict] = name
WriteForward(t) ==
  /\ threads[t].pc = "forward"
  /\ registry' = DictSet(registry, threads[t].sdict, threads[t].name)
  /\ threads' = [threads EXCEPT ![t].pc = "reverse"]
  /\ UNCHANGED <<styleVars, ctxs, paths, subitems, nameLookup, ops, renders, result, prior,
                 groups, tfs, sweep>>

\* _global_style_name_lookup[name] = sdict; return name
WriteReverse(t) ==
  /\ threads[t].pc = "reverse"
  /\ nameLookup' = DictSet(nameLookup, threads[t].name, threads[t].sdict)
  /\ threads' = StyleDictReturned(t, threads[t].name)
  /\ UNCHANGED <<styleVars, ctxs, paths, subitems, registry, ops, renders, result, prior,
                 groups, tfs, sweep>>

NextRegistry ==
  \/ \E t \in Threads, style \in RegistryStyles : Serialize(t, style)
  \/ \E t \in Threads : Lookup(t)
  \/ \E t \in Threads : TakeName(t)
  \/ \E t \in Threads : WriteForward(t)
  \/ \E t \in Threads : WriteReverse(t)

SpecRegistry == Init /\ [][NextRegistry]_vars

(***************************************************************************)
(* Properties of the style model (SpecStyle).                              *)
(***************************************************************************)
\* two styles agree on every merge property: the properties are the
\* attributes, the dash pattern and phase being the two halves of D
SameProps(x, y) == x = y

\* the value of every property of merge(parent, child) as the contract has it
ChildElseParent(parent, child) ==
  [f \in DOMAIN GraphicsStyle |-> IF child[f] # INHERIT THEN child[f] ELSE parent[f]]

\* C7: for every style s reachable through the property setters, merging
\* with an all-INHERIT style is the identity in both positions: neither
\* merge raises and each of the 14 merge properties of the result has the
\* value it has in s.
C7_MergeInheritIdentity ==
  \A i \in 1..3 :
    /\ Merge(styles[i], GraphicsStyle) = Ok(styles[i])
    /\ Merge(GraphicsStyle, styles[i]) = Ok(styles[i])

\* a style whose fill colour carries an alpha that the fill opacity, assigned
\* afterwards, no longer equals, merged with the all-INHERIT style
C7_Witness ==
  LET s == styles[2]
  IN /\ IsColor(s.fill_color) /\ s.fill_color.v.a # None
     /\ s.ca # s.fill_color.v.a
     /\ Merge(s, GraphicsStyle).val.ca = s.ca

\* C8: merge(parent, child) has, for each property, the child's value unless
\* that is INHERIT and then the parent's; the dash pair comes whole from one
\* style; and merge is associative on every property.
C8_MergeChildOverridesAssociative ==
  LET a == styles[1]
      b == styles[2]
      c == styles[3]
  IN /\ Merge(a, b) = Ok(ChildElseParent(a, b))
     /\ Merge(b, c) = Ok(ChildElseParent(b, c))
     /\ Merge(ChildElseParent(a, b), c) = Merge(a, ChildElseParent(b, c))
     /\ Merge(a, ChildElseParent(b, c)).err = ""

\* a chain in which each of the three styles contributes a property to the
\* merged style: the base its auto_close, the context its dash pair, the
\* nested context another property
C8_Witness ==
  /\ styles[1] = BaseStyle
  /\ styles[2].D # INHERIT
  /\ styles[3] # GraphicsStyle /\ styles[3].D = INHERIT
  /\ Merge(Merge(styles[1], styles[2]).val, styles[3]).val.D = styles[2].D

IsSet(x) == x # None

\* C10: resolve_paint_rule returns a non-AUTO paint rule unchanged; for AUTO
\* stroke is tagged iff stroke width and stroke colour are both set (not
\* None), fill iff the fill colour is set, and the result is the table entry
\* of that tag set, STROKE_FILL_NONZERO when the table has none.
C10_ResolvePaintRuleTable ==
  \A i \in 1..3 :
    LET s == styles[i]
        r == ResolvePaintRule(s)
        stroke == IsSet(s.LW) /\ IsSet(s.stroke_color)
        fill == IsSet(s.fill_color)
        nonzero == s.intersection_rule = Member("IntersectionRule", "nonzero")
        evenodd == s.intersection_rule = Member("IntersectionRule", "evenodd")
    IN IF s.paint_rule # Member("PathPaintRule", "auto") THEN r = s.paint_rule
       ELSE r = Member("PathPaintRule",
                  CASE ~stroke /\ ~fill -> "n"
                    [] stroke /\ ~fill -> "S"
                    [] ~stroke /\ fill /\ nonzero -> "f"
                    [] ~stroke /\ fill /\ evenodd -> "f*"
                    [] stroke /\ fill /\ nonzero -> "B"
                    [] stroke /\ fill /\ evenodd -> "B*"
                    [] OTHER -> "B")

\* AUTO resolved on a style whose want-set is in no table entry (a fill with
\* the intersection rule left at INHERIT, the stroke switched off)
C10_Witness ==
  LET s == styles[2]
  IN /\ s.paint_rule = Member("PathPaintRule", "auto")
     /\ s.LW = None
     /\ s.intersection_rule = INHERIT
     /\ ResolvePaintRule(s) = Member("PathPaintRule", "B")

\* C27: a property assignment that raises leaves every property of the style
\* with the value it had before the assignment.
C27_RaisingAssignmentChangesNothing ==
  [][(setCalls' = setCalls + 1 /\ lastErr' # "") => styles' = styles]_vars

\* the values assigned to the two dash properties of a style reached by the
\* assignments: those of the assignments, and a bare number as a pattern
DashPatternValues == SetterInputs("stroke_dash_pattern") \cup {Num(300000)}
DashPhaseValues == SetterInputs("stroke_dash_phase") \cup {Num(0)}

\* the style after style.<prop> = value, and whether the assignment returned
AfterSet(s, prop, value) == SetProp(s, prop, value).val
Accepted(s, prop, value) == SetProp(s, prop, value).err = ""

\* C23 as stated: every accepted assignment to stroke_dash_pattern leaves
\* stroke_dash_phase as it was, and every accepted assignment to
\* stroke_dash_phase leaves stroke_dash_pattern as it was.
C23_DashSettersPreserveEachOther ==
  \A i \in 1..3 :
    /\ \A v \in DashPatternValues :
         Accepted(styles[i], "stroke_dash_pattern", v)
           => GetProp(AfterSet(styles[i], "stroke_dash_pattern", v), "stroke_dash_phase")
                = GetProp(styles[i], "stroke_dash_phase")
    /\ \A v \in DashPhaseValues :
         Accepted(styles[i], "stroke_dash_phase", v)
           => GetProp(AfterSet(styles[i], "stroke_dash_phase", v), "stroke_dash_pattern")
                = GetProp(styles[i], "stroke_dash_pattern")

\* C23, amended: a number or a sequence assigned to stroke_dash_pattern keeps
\* the phase of the stored pair, and stores phase 0 when no pair is stored;
\* None stores the pair ((), 0) and INHERIT replaces the pair, so both discard
\* the phase.  A number assigned to stroke_dash_phase keeps the pattern of the
\* stored pair and raises ValueError when no pair is stored; INHERIT assigned
\* to it changes nothing.
C23_DashSettersKeepStoredPair ==
  \A i \in 1..3 :
    LET s == styles[i]
        paired == s.D.tag = "tuple"
    IN /\ \A v \in DashPatternValues :
            LET after == AfterSet(s, "stroke_dash_pattern", v)
            IN CASE IsNumber(v) \/ v.tag = "tuple" ->
                      /\ Accepted(s, "stroke_dash_pattern", v)
                      /\ GetProp(after, "stroke_dash_pattern")
                           = (IF IsNumber(v) THEN Tuple(<<v>>) ELSE v)
                      /\ GetProp(after, "stroke_dash_phase")
                           = (IF paired THEN GetProp(s, "stroke_dash_phase") ELSE Num(0))
                 [] v = None -> after.D = DashPair(Tuple(<<>>), Num(0))
                 [] v = INHERIT ->
                      /\ GetProp(after, "stroke_dash_phase") = INHERIT
                      /\ GetProp(after, "stroke_dash_pattern") = INHERIT
                 [] OTHER -> ~Accepted(s, "stroke_dash_pattern", v) /\ after = s
       /\ \A v \in DashPhaseValues :
            LET after == AfterSet(s, "stroke_dash_phase", v)
            IN CASE IsNumber(v) /\ paired ->
                      /\ Accepted(s, "stroke_dash_phase", v)
                      /\ after.D = DashPair(GetProp(s, "stroke_dash_pattern"), v)
                 [] IsNumber(v) /\ ~paired ->
                      SetProp(s, "stroke_dash_phase", v).err = "ValueError" /\ after = s
                 [] v = INHERIT -> Accepted(s, "stroke_dash_phase", v) /\ after = s
                 [] OTHER -> ~Accepted(s, "stroke_dash_phase", v) /\ after = s

\* a style whose pattern was assigned and then its phase: the pair holds both,
\* and None or INHERIT assigned to the pattern now would discard the phase
C23_Witness ==
  /\ styles[2].D = DashPair(Tuple(<<Num(100000), Num(200000)>>), Num(100000))
  /\ GetProp(AfterSet(styles[2], "stroke_dash_pattern", None), "stroke_dash_phase") = Num(0)
  /\ GetProp(AfterSet(styles[2], "stroke_dash_pattern", INHERIT), "stroke_dash_phase")
       = INHERIT

(***************************************************************************)
(* Properties of rendering (Spec).  An operator string is compared as its  *)
(* sequence of lexemes.                                                    *)
(***************************************************************************)
SetOf(seq) == {seq[i] : i \in 1..Len(seq)}

\* C1: a DrawingContext.render that directly follows a render of the same
\* tree with the same (first_point, scale, height) returns the same operator
\* string and the same set of resource names, whatever renders came before
\* and also when the first of the two inserted an implicit close and
\* registered styles.
C1_RenderDeterministic ==
  (result.call = "render" /\ prior.call = "render")
    => /\ result.err = prior.err
       /\ result.out = prior.out
       /\ SetOf(result.gsds) = SetOf(prior.gsds)

\* the second of two renders of an open, styled path: the first inserted the
\* implicit close and registered the style
C1_Witness ==
  /\ result.call = "render" /\ prior.call = "render"
  /\ renders = 2
  /\ Len(result.gsds) > 0
  /\ \E c \in 1..Len(ctxs) : \E i \in 1..Len(ctxs[c].path_items) :
       ctxs[c].path_items[i].kind = "ImplicitClose"
  /\ \E i \in 1..Len(result.out) : result.out[i].t = "h"

\* C2: a render_debug that follows a render of the same tree with the same
\* arguments returns without raising, with the same operator string and the
\* same set of resource names.
C2_RenderDebugSameAsRender ==
  (result.call = "render_debug" /\ prior.call = "render" /\ prior.err = "")
    => /\ result.err = ""
       /\ result.out = prior.out
       /\ SetOf(result.gsds) = SetOf(prior.gsds)

\* the names that precede a gs operator in an operator string
GsOperands(out) ==
  {GS(out[i].n) : i \in {j \in 1..(Len(out) - 1) : out[j].t = "/GS" /\ out[j + 1].t = "gs"}}

\* the contexts a render of the drawing writes out: the root contexts of the
\* top-level paths that have path items
RenderedContexts ==
  {paths[subitems[i].ref].root : i \in 1..Len(subitems)}
    \cap {c \in 1..Len(ctxs) : ctxs[c].path_items # <<>>}

\* C3: after a render that returned, the returned names are exactly the
\* operands of the gs operators of the returned string; each returned name
\* resolves through get_style_dict_by_name to the dictionary of a rendered
\* context's style, the one the registry holds that name for, and each
\* rendered context with an explicit dictionary entry has its name returned;
\* a name never issued raises KeyError.
C3_NamesAreGsOperandsAndResolve ==
  (result.call # "none" /\ result.err = "")
    => /\ SetOf(result.gsds) = GsOperands(result.out)
       /\ \A name \in SetOf(result.gsds) :
            /\ GetStyleDictByName(nameLookup, name).err = ""
            /\ \E c \in RenderedContexts :
                 /\ ToPdfDict(ctxs[c].style) = GetStyleDictByName(nameLookup, name).val
                 /\ DictGet(registry, ToPdfDict(ctxs[c].style)) = name
       /\ \A c \in RenderedContexts :
            ToPdfDict(ctxs[c].style) # ToPdfDict(GraphicsStyle)
              => /\ DictHas(registry, ToPdfDict(ctxs[c].style))
                 /\ DictGet(registry, ToPdfDict(ctxs[c].style)) \in SetOf(result.gsds)
       /\ \A k \in 0..(Len(registry) + 1) :
            GS(k) \notin DictKeys(nameLookup)
              => GetStyleDictByName(nameLookup, GS(k)).err = "KeyError"
       /\ GetStyleDictByName(nameLookup, GS(Len(registry))).err = "KeyError"

\* a render that returned a name while the registry holds another name the
\* drawing does not use
C3_Witness ==
  /\ result.call = "render" /\ result.err = ""
  /\ Len(result.gsds) >= 1
  /\ Len(nameLookup) > Len(result.gsds)
  /\ GsOperands(result.out) # {}

\* the registry and the reverse table as one interning table
RegistryInterns ==
  /\ \A i, j \in 1..Len(registry) :
       i # j => /\ registry[i].key # registry[j].key
                /\ registry[i].val # registry[j].val
  /\ \A i \in 1..Len(registry) :
       registry[i].val # None
         => /\ DictHas(nameLookup, registry[i].val)
            /\ DictGet(nameLookup, registry[i].val) = registry[i].key
  /\ \A i \in 1..Len(nameLookup) :
       /\ DictHas(registry, nameLookup[i].val)
       /\ DictGet(registry, nameLookup[i].val) = nameLookup[i].key
  /\ \A c, d \in 1..Len(ctxs) :
       LET g == GetOrSetStyleDict(registry, nameLookup, ctxs[c].style)
           k == GetOrSetStyleDict(g.registry, g.lookup, ctxs[d].style)
           again == GetOrSetStyleDict(k.registry, k.lookup, ctxs[c].style)
       IN /\ again.name = g.name
          /\ again.registry = k.registry
          /\ (ToPdfDict(ctxs[c].style) = ToPdfDict(ctxs[d].style)) <=> (g.name = k.name)

\* no step removes or remaps an entry of either table
RegistryAppendOnly ==
  /\ Len(registry') >= Len(registry)
  /\ \A i \in 1..Len(registry) : registry'[i] = registry[i]
  /\ Len(nameLookup') >= Len(nameLookup)
  /\ \A i \in 1..Len(nameLookup) : nameLookup'[i] = nameLookup[i]

\* C4: through any sequence of renders the registry is an append-only
\* interning table: equal dictionaries have one name, different dictionaries
\* different names, the two tables are inverse to each other on every issued
\* name, and no step removes or remaps an entry.
C4_RegistryAppendOnlyInterning ==
  []RegistryInterns /\ [][RegistryAppendOnly]_vars

\* a second render that interned a second dictionary next to the first
C4_Witness ==
  /\ Len(nameLookup) >= 2
  /\ renders = 2
  /\ result.call = "render"
  /\ result.gsds = <<nameLookup[2].key>>

\* C5 as stated: the k-th distinct dictionary interned, counting from 0, is
\* named GSk, the first GS0.
C5_NamesCountFromZero ==
  \A i \in 1..Len(nameLookup) : nameLookup[i].key = GS(i - 1)

\* C5: the registry holds the dictionary without explicit entries from module
\* load on, under no name, so the k-th distinct dictionary interned, counting
\* from 0, is named GS(k+1), the first GS1.
C5_NamesCountFromOne ==
  /\ \A i \in 1..Len(nameLookup) : nameLookup[i].key = GS(i)
  /\ \A i \in 1..Len(registry) :
       registry[i].val = IF i = 1 THEN None ELSE GS(i - 1)

\* two distinct dictionaries interned one after the other
C5_Witness ==
  /\ Len(nameLookup) = 2
  /\ nameLookup[1].val # nameLookup[2].val
  /\ result.call = "render"

\* C6: a render of a DrawingContext without items returns the empty operator
\* string and no resource names, and leaves both registry tables as they were.
C6_EmptyDrawingRender ==
  [][(subitems = <<>> /\ result'.call = "render" /\ renders' = renders + 1)
       => /\ result'.err = ""
          /\ result'.out = <<>>
          /\ result'.gsds = <<>>
          /\ registry' = registry
          /\ nameLookup' = nameLookup]_vars

\* a new, empty drawing rendered after an earlier drawing registered a style
C6_Witness ==
  /\ subitems = <<>>
  /\ result.call = "render"
  /\ result.out = <<>>
  /\ Len(nameLookup) >= 1

\* the paint operator a render wrote for the last top-level path: list.insert
\* puts it before the closing Q of the path, or alone when the path is empty
LastPath == paths[subitems[Len(subitems)].ref]
LastStyle == ctxs[LastPath.root].style
LastPaintOperator ==
  IF ctxs[LastPath.root].path_items = <<>>
    THEN result.out[Len(result.out) - 1].t
    ELSE result.out[Len(result.out) - 2].t

IsAutoNonzero(s) ==
  /\ s.paint_rule \in {INHERIT, Member("PathPaintRule", "auto")}
  /\ s.intersection_rule \in {INHERIT, Member("IntersectionRule", "nonzero")}

WasSet(x) == x # INHERIT /\ x # None

\* C9 as stated: S when only stroke colour and width were set, f when only
\* the fill colour was set, n when neither was set.
C9_AutoPaintBySetProperties ==
  (result.call = "render" /\ result.err = "" /\ subitems # <<>> /\ IsAutoNonzero(LastStyle))
    => LET s == LastStyle
           stroke == WasSet(s.stroke_color) /\ WasSet(s.LW)
           fill == WasSet(s.fill_color)
       IN /\ (stroke /\ ~fill) => LastPaintOperator = "S"
          /\ (fill /\ ~WasSet(s.stroke_color) /\ ~WasSet(s.LW)) => LastPaintOperator = "f"
          /\ (~fill /\ ~WasSet(s.stroke_color) /\ ~WasSet(s.LW)) => LastPaintOperator = "n"

\* C9: under the AUTO paint rule a property left at INHERIT counts as
\* present and only None switches it off: S when the fill colour is None and
\* neither stroke colour nor width is None, f when stroke colour or width is
\* None and the fill colour is not, n when the fill colour is None and stroke
\* colour or width is None, B otherwise, as for a path with nothing set.
C9_AutoPaintByNone ==
  (result.call = "render" /\ result.err = "" /\ subitems # <<>> /\ IsAutoNonzero(LastStyle))
    => LET s == LastStyle
           stroke == s.stroke_color # None /\ s.LW # None
           fill == s.fill_color # None
       IN LastPaintOperator = (CASE stroke /\ ~fill -> "S"
                                 [] ~stroke /\ fill -> "f"
                                 [] ~stroke /\ ~fill -> "n"
                                 [] OTHER -> "B")

\* a path with its fill colour switched off and a stroke width set, rendered
C9_Witness ==
  /\ result.call = "render" /\ result.err = "" /\ subitems # <<>>
  /\ LastStyle.fill_color = None
  /\ WasSet(LastStyle.LW)
  /\ LastPaintOperator = "S"

\* the positions of the operators of a set in a rendered string
Positions(out, operators) == {i \in 1..Len(out) : out[i].t \in operators}

PaintOperators == {"S", "f", "f*", "B", "B*", "n"}
ConstructionOperators == {"m", "l", "c", "h", "re"}

\* a render returned the string of a drawing that holds one path
OnePathRendered ==
  /\ result.call = "render"
  /\ result.err = ""
  /\ Len(subitems) = 1

\* the output of that path: what the string holds between the drawing's
\* "q <matrix> cm" and the drawing's closing Q
PathOutput == SubSeq(result.out, 9, Len(result.out) - 1)

\* the operator of the paint rule render resolves for the path
ResolvedOperator == PaintRuleValue(ResolvePaintRule(Merge(BaseStyle, LastStyle).val))

\* exactly one paint operator, the resolved one, after every construction
\* operator
OnePaintOperator(out) ==
  /\ Cardinality(Positions(out, PaintOperators \cup {"auto", "AttributeError"})) = 1
  /\ ResolvedOperator \in PaintOperators
  /\ \E k \in Positions(out, {ResolvedOperator}) :
       \A i \in Positions(out, ConstructionOperators) : i < k

\* the paint operator is the last but one lexeme, before the closing Q
BeforeClosingQ(out) ==
  /\ Len(out) >= 2
  /\ out[Len(out) - 1].t = ResolvedOperator
  /\ out[Len(out)].t = "Q"

\* C12 as stated: the output of a rendered path has exactly one paint
\* operator, the resolved rule's (S, f, f*, B, B* or n), immediately before
\* the path's own closing Q and after all its segment operators.
C12_PaintOperatorBeforeClosingQ ==
  OnePathRendered => (OnePaintOperator(PathOutput) /\ BeforeClosingQ(PathOutput))

\* C12: the output of a rendered path has exactly one paint operator, the
\* resolved rule's (S, f, f*, B, B* or n), after all its segment operators: it
\* sits immediately before the path's own closing Q when the path has
\* elements, and it is the whole output, without q and Q, when the path has
\* none.
C12_PaintOperatorBeforeClosingQOrAlone ==
  OnePathRendered
    => /\ OnePaintOperator(PathOutput)
       /\ IF ctxs[LastPath.root].path_items # <<>>
            THEN BeforeClosingQ(PathOutput)
            ELSE PathOutput = <<Lex(ResolvedOperator)>>

\* a path with a line and its stroke switched off, rendered: its operator is f
C12_Witness ==
  /\ OnePathRendered
  /\ ctxs[LastPath.root].path_items # <<>>
  /\ LastStyle.stroke_color = None
  /\ PathOutput[Len(PathOutput) - 1].t = "f"

(***************************************************************************)
(* Properties of path building (SpecPath).                                 *)
(***************************************************************************)
SegmentKinds ==
  {"Line", "RelativeLine", "HorizontalLine", "RelativeHorizontalLine", "VerticalLine",
   "RelativeVerticalLine", "Arc", "RelativeArc"}

\* the kinds of the elements of context cid from item i on, in the order of
\* the calls that appended them: a nested context stands where its elements
\* were appended, and the ImplicitClose a render inserted is left out
RECURSIVE CallOrder(_, _)
CallOrder(cid, i) ==
  IF i > Len(ctxs[cid].path_items) THEN <<>>
  ELSE (IF ctxs[cid].path_items[i].kind = "GraphicsContext"
          THEN CallOrder(ctxs[cid].path_items[i].ref, 1)
        ELSE IF ctxs[cid].path_items[i].kind = "ImplicitClose" THEN <<>>
        ELSE <<ctxs[cid].path_items[i].kind>>)
       \o CallOrder(cid, i + 1)

\* a segment was appended after the last explicit close or native rectangle
OpenAfterLastClose(kinds) ==
  \E i \in 1..Len(kinds) :
    /\ kinds[i] \in SegmentKinds
    /\ \A j \in (i + 1)..Len(kinds) : kinds[j] \notin {"Close", "Rectangle"}

\* the first render of a drawing that holds the one path built so far
FirstRenderOfOnePath ==
  /\ result.call = "render"
  /\ result.err = ""
  /\ renders = 1
  /\ Len(subitems) = 1
  /\ Len(paths) = 1

\* C11: after any sequence of path-building calls, if a segment was appended
\* after the last explicit close or native rectangle, the string the render
\* returns (auto_close is true) has a close operator h after the last segment
\* operator and before the paint operator.
C11_OpenSubpathClosedAtRender ==
  (FirstRenderOfOnePath /\ OpenAfterLastClose(CallOrder(LastPath.root, 1)))
    => \E j \in Positions(result.out, {"h"}) :
         /\ \A i \in Positions(result.out, {"l", "c"}) : i < j
         /\ j < Len(result.out) - 2

\* the items a call appended to context cid, heap before and heap after
AddedTo(before, after, cid) ==
  SubSeq(after.ctxs[cid].path_items, Len(before.ctxs[cid].path_items) + 1,
         Len(after.ctxs[cid].path_items))

\* their kinds, without the ImplicitClose that ends the subpath left open
\* before the call
KindsAdded(before, after, cid) ==
  [i \in 1..Len(SelectSeq(AddedTo(before, after, cid),
                          LAMBDA e : e.kind # "ImplicitClose")) |->
     SelectSeq(AddedTo(before, after, cid), LAMBDA e : e.kind # "ImplicitClose")[i].kind]

\* a call appended the kinds of one of the sequences to the current context
\* of the path and nothing to any other context
AppendedKinds(before, after, pid, sequences) ==
  /\ Len(after.ctxs) = Len(before.ctxs)
  /\ KindsAdded(before, after, before.paths[pid].graphics_context) \in sequences
  /\ \A cid \in 1..Len(before.ctxs) :
       cid # before.paths[pid].graphics_context => KindsAdded(before, after, cid) = <<>>

RoundedKinds ==
  <<"Move", "Line", "Arc", "Line", "Arc", "Line", "Arc", "Line", "Arc", "Close">>

\* C15: in every builder state, rectangle with a zero corner radius appends
\* one native Rectangle (after the pending starter move, if there is one) and
\* no line segment, and the Rectangle renders as "x y w h re" and returns a
\* Line to its origin; with non-zero radii it appends a move, then line, arc,
\* line, arc, line, arc, line, arc, then a Close.
C15_RectangleElements ==
  \A pid \in CurrentPath :
    /\ \A rx \in Radii, ry \in Radii :
         AppendedKinds(Heap, PathRectangle(Heap, pid, 1, 1, 4, 3, rx, ry), pid,
                       IF rx = 0 \/ ry = 0
                         THEN {<<"Rectangle">>, <<"Move", "Rectangle">>,
                               <<"RelativeMove", "Rectangle">>}
                         ELSE {RoundedKinds})
    /\ \A last \in PathPoints :
         RenderElement(ElemSized("Rectangle", <<1, 1>>, <<4, 3>>), BaseStyle,
                       Elem("Line", last))
           = [text |-> <<LexInt(1), LexInt(1), LexInt(4), LexInt(3), Lex("re")>>,
              last |-> Elem("Line", <<1, 1>>)]

\* a path that holds a native rectangle and then a rounded one, rendered: one
\* re operator and four arcs
C15_Witness ==
  /\ OnePathRendered
  /\ CallOrder(LastPath.root, 1) = <<"Move", "Rectangle">> \o RoundedKinds
  /\ Cardinality(Positions(result.out, {"re"})) = 1
  /\ Cardinality(Positions(result.out, {"arc"})) = 4

\* the string a render of the drawing returns when the heap is h
RenderedText(h) == DrawingRender(h, subitems, registry, nameLookup, PathRenderArgs).out

\* C16: in every builder state, arc_to with rx = 0 or ry = 0 leaves the path
\* as line_to to the same end point does, and arc_relative as line_relative
\* does, and the drawing then renders to the same string as with the line.
C16_DegenerateArcIsLine ==
  \A pid \in CurrentPath :
    /\ \A rx \in Radii, ry \in Radii :
         (rx = 0 \/ ry = 0)
           => /\ PathArcTo(Heap, pid, rx, ry, ArcPoint) = PathLineTo(Heap, pid, ArcPoint)
              /\ PathArcRelative(Heap, pid, rx, ry, ArcPoint)
                   = PathLineRelative(Heap, pid, ArcPoint)
    /\ groups = <<>>
         => /\ RenderedText(PathArcTo(Heap, pid, 0, 1, ArcPoint))
                 = RenderedText(PathLineTo(Heap, pid, ArcPoint))
            /\ RenderedText(PathArcRelative(Heap, pid, 1, 0, ArcPoint))
                 = RenderedText(PathLineRelative(Heap, pid, ArcPoint))

\* a path on which arc_to was called with a zero radius, rendered: a line to
\* the arc's end point and no arc
C16_Witness ==
  /\ OnePathRendered
  /\ \E i \in 1..Len(ctxs[LastPath.root].path_items) :
       ctxs[LastPath.root].path_items[i] = Elem("Line", ArcPoint)
  /\ Positions(result.out, {"arc"}) = {}
  /\ \E i \in Positions(result.out, {"l"}) :
       <<result.out[i - 2], result.out[i - 1]>> = PointRender(ArcPoint)

(***************************************************************************)
(* Properties of clipping (SpecClip).  A rendered string is read with the  *)
(* semantics of the PDF graphics state: q pushes a copy of the current     *)
(* state, Q pops it, cm composes its matrix onto the current one.          *)
(***************************************************************************)
\* the matrix a cm at position i of a rendered string takes
CmOperand(out, i) == [j \in 1..6 |-> out[i - 7 + j].n]

\* the matrix a Transform is written as
CmOf(tf) == [j \in 1..6 |-> TransformRender(tf)[j].n]

\* the graphics state stack after the operators i..k of a rendered string:
\* each entry is the sequence of the matrices composed into its current
\* matrix, the last entry the current state
RECURSIVE GraphicsStack(_, _, _, _)
GraphicsStack(out, i, k, stack) ==
  IF i > k \/ Len(stack) = 0 THEN stack
  ELSE GraphicsStack(out, i + 1, k,
         CASE out[i].t = "q" -> Append(stack, stack[Len(stack)])
           [] out[i].t = "Q" -> SubSeq(stack, 1, Len(stack) - 1)
           [] out[i].t = "cm" ->
                [stack EXCEPT ![Len(stack)] = Append(@, CmOperand(out, i))]
           [] OTHER -> stack)

\* the matrices in effect at position k of a rendered string
InEffect(out, k) ==
  {GraphicsStack(out, 1, k, <<<<>>>>)[Len(GraphicsStack(out, 1, k, <<<<>>>>))][j] :
     j \in 1..Len(GraphicsStack(out, 1, k, <<<<>>>>)[Len(GraphicsStack(out, 1, k, <<<<>>>>))])}

\* the clipping path of the path rendered, and the two root contexts
TheClip == paths[ctxs[LastPath.root].clipping_path]
ClippedContext == ctxs[LastPath.root]
ClipContext == ctxs[TheClip.root]

\* a render returned the string of a drawing whose one path has elements and
\* a clipping path with elements, each with a transform of its own
ClippedPathRendered ==
  /\ OnePathRendered
  /\ ClippedContext.path_items # <<>>
  /\ ClippedContext.clipping_path # 0
  /\ ClipContext.path_items # <<>>
  /\ ClipContext.clipping_path = 0
  /\ ClippedContext.has_transform
  /\ ClipContext.has_transform
  /\ ClippedContext.transform # ClipContext.transform

\* the position of the clip operator, and the construction operators of the
\* clipping path (before it) and of the clipped context (after it)
ClipOperatorAt(out) == CHOOSE i \in Positions(out, {"W", "W*"}) : TRUE
ClipElementsAt(out) ==
  {i \in Positions(out, ConstructionOperators) : i < ClipOperatorAt(out)}
ChildElementsAt(out) ==
  {i \in Positions(out, ConstructionOperators) : i > ClipOperatorAt(out)}

\* C13: read with q, Q and cm, the cm of the clipping path's own transform is
\* not in effect where the elements of the clipped context are written, and
\* the cm of the clipped context's own transform is not in effect where the
\* elements of the clipping path are written.
C13_ClipTransformDoesNotLeak ==
  ClippedPathRendered
    => /\ \A i \in ChildElementsAt(result.out) :
            CmOf(ClipContext.transform) \notin InEffect(result.out, i)
       /\ \A i \in ClipElementsAt(result.out) :
            CmOf(ClippedContext.transform) \notin InEffect(result.out, i)

\* the contexts a render of a drawing with one path builds a render list
\* for, each with its own style and with the merged style it renders its
\* children with: the root context of the path and that of its clipping path
StylesRendered ==
  IF ClippedContext.path_items = <<>> THEN {}
  ELSE {[cid |-> LastPath.root, own |-> ClippedContext.style,
         merged |-> Merge(BaseStyle, ClippedContext.style).val]}
       \cup (IF ClippedContext.clipping_path = 0 THEN {}
             ELSE IF ClipContext.path_items = <<>> THEN {}
             ELSE {[cid |-> TheClip.root, own |-> ClipContext.style,
                    merged |-> Merge(Merge(BaseStyle, ClippedContext.style).val,
                                     ClipContext.style).val]})

\* the style's dictionary has an explicit entry
HasEntries(s) == ToPdfDict(s) # ToPdfDict(GraphicsStyle)

\* one gs operator for each of the styles, each with its interned name, and
\* the names returned are those
GsEmittedFor(styleSet) ==
  /\ Cardinality(Positions(result.out, {"gs"})) = Cardinality(styleSet)
  /\ \A x \in styleSet :
       /\ DictHas(registry, ToPdfDict(x.style))
       /\ DictGet(registry, ToPdfDict(x.style)) \in GsOperands(result.out)
  /\ GsOperands(result.out) = SetOf(result.gsds)

\* C18 as stated: a context with children emits gs, and returns the name,
\* exactly when the dictionary of the merged style has an explicit entry.
C18_GsForMergedStyle ==
  OnePathRendered
    => GsEmittedFor({[cid |-> x.cid, style |-> x.merged] :
                       x \in {y \in StylesRendered : HasEntries(y.merged)}})

\* C18: build_render_list interns and emits the dictionary of the context's
\* own style: a context with children emits gs, and returns the name, exactly
\* when the dictionary of its own style has an explicit entry; the merged
\* style is what its children are rendered with.
C18_GsForOwnStyle ==
  OnePathRendered
    => GsEmittedFor({[cid |-> x.cid, style |-> x.own] :
                       x \in {y \in StylesRendered : HasEntries(y.own)}})

\* a path with a stroke width and a clipping path with elements, rendered:
\* the clipping path's merged style has the width, its own style has not, and
\* one gs is written
C18_Witness ==
  /\ OnePathRendered
  /\ Cardinality(StylesRendered) = 2
  /\ \A x \in StylesRendered : HasEntries(x.merged)
  /\ ~HasEntries(ClipContext.style)
  /\ Cardinality(Positions(result.out, {"gs"})) = 1

\* the styles a render of the drawing resolves a paint rule on: for every
\* top-level path the base style merged with the path's style, and for the
\* clipping path of a path with elements that style merged with its own
ResolvedOn ==
  UNION {
    {Merge(BaseStyle, ctxs[paths[subitems[i].ref].root].style).val}
      \cup (IF /\ ctxs[paths[subitems[i].ref].root].path_items # <<>>
               /\ ctxs[paths[subitems[i].ref].root].clipping_path # 0
              THEN {Merge(Merge(BaseStyle, ctxs[paths[subitems[i].ref].root].style).val,
                          ctxs[paths[ctxs[paths[subitems[i].ref].root].clipping_path].root]
                            .style).val}
              ELSE {}) : i \in 1..Len(subitems)}

\* C19: in a render started from DrawingContext.render, every style a paint
\* rule is resolved on has paint_rule, auto_close and intersection_rule
\* different from INHERIT, so the want-set of an AUTO rule is an entry of
\* _PAINT_RULE_LOOKUP and the fallback is not taken: the operator written is
\* the table's.
C19_ResolvedStylesNeverInherit ==
  (result.call = "render" /\ result.err = "")
    => /\ \A s \in ResolvedOn :
            /\ s.paint_rule # INHERIT
            /\ s.auto_close # INHERIT
            /\ s.intersection_rule # INHERIT
            /\ s.paint_rule = Member("PathPaintRule", "auto")
                 => PAINT_RULE_LOOKUP(WantSet(s)) # "KeyError"
       /\ (Len(subitems) = 1 /\ Merge(BaseStyle, LastStyle).val.paint_rule
                                  = Member("PathPaintRule", "auto"))
            => LastPaintOperator = PAINT_RULE_LOOKUP(WantSet(Merge(BaseStyle, LastStyle).val))

\* a path with the even-odd rule and a clipping path switched to AUTO,
\* rendered: both resolve through the table to B*
C19_Witness ==
  /\ OnePathRendered
  /\ ClippedContext.path_items # <<>>
  /\ ClippedContext.clipping_path # 0
  /\ ClipContext.style.paint_rule = Member("PathPaintRule", "auto")
  /\ ClippedContext.style.intersection_rule = Member("IntersectionRule", "evenodd")
  /\ Cardinality(Positions(result.out, {"B*"})) = 2
  /\ Positions(result.out, {"W*"}) # {}

\* C20: a clipping path whose last subpath is still open when it is rendered
\* receives an implicit close: with auto_close true its output has an h after
\* its last segment operator and before the clip operator W or W* and the
\* paint operator that end it.
C20_ClippingPathClosedAtRender ==
  (/\ OnePathRendered
   /\ renders = 1
   /\ ClippedContext.path_items # <<>>
   /\ ClippedContext.clipping_path # 0
   /\ ClipContext.path_items # <<>>
   /\ ~TheClip.closed
   /\ OpenAfterLastClose(CallOrder(TheClip.root, 1))
   /\ Truthy(Merge(Merge(BaseStyle, ClippedContext.style).val, ClipContext.style).val
               .auto_close))
    => \E j \in Positions(result.out, {"h"}) :
         /\ j < ClipOperatorAt(result.out)
         /\ \A i \in ClipElementsAt(result.out) : i <= j

(***************************************************************************)
(* Properties of chaining (SpecChain).                                     *)
(***************************************************************************)
\* the elements of context cid from item i on as a render meets them, the
\* elements of a nested context in its place
RECURSIVE Elements(_, _)
Elements(cid, i) ==
  IF i > Len(ctxs[cid].path_items) THEN <<>>
  ELSE (IF ctxs[cid].path_items[i].kind = "GraphicsContext"
          THEN Elements(ctxs[cid].path_items[i].ref, 1)
          ELSE <<ctxs[cid].path_items[i]>>)
       \o Elements(cid, i + 1)

\* the elements of the top-level items i.. of the drawing
RECURSIVE DrawingElements(_)
DrawingElements(i) ==
  IF i > Len(subitems) THEN <<>>
  ELSE Elements(paths[subitems[i].ref].root, 1) \o DrawingElements(i + 1)

\* the terminal point of an element that follows one ending in prev
Resolved(e, prev) ==
  CASE e.kind \in {"Move", "Line"} -> e.pt
    [] e.kind \in {"RelativeMove", "RelativeLine"} -> <<prev[1] + e.pt[1], prev[2] + e.pt[2]>>
    [] e.kind = "HorizontalLine" -> <<e.pt[1], prev[2]>>
    [] e.kind = "RelativeHorizontalLine" -> <<prev[1] + e.pt[1], prev[2]>>
    [] e.kind = "VerticalLine" -> <<prev[1], e.pt[2]>>
    [] e.kind = "RelativeVerticalLine" -> <<prev[1], prev[2] + e.pt[2]>>
    [] OTHER -> prev

\* the points a chain of elements emits from the point prev on: one for each
\* element but Close and ImplicitClose, which emit none and keep prev
RECURSIVE ChainPoints(_, _, _)
ChainPoints(elems, i, prev) ==
  IF i > Len(elems) THEN <<>>
  ELSE (IF elems[i].kind \in {"Close", "ImplicitClose"} THEN <<>>
        ELSE <<Resolved(elems[i], prev)>>)
       \o ChainPoints(elems, i + 1, Resolved(elems[i], prev))

\* the operand points of the m and l operators of a rendered string, in order
RECURSIVE EmittedPoints(_, _)
EmittedPoints(out, i) ==
  IF i > Len(out) THEN <<>>
  ELSE (IF out[i].t \in {"m", "l"} THEN <<<<out[i - 2], out[i - 1]>>>> ELSE <<>>)
       \o EmittedPoints(out, i + 1)

\* the points as Point.render writes them
RECURSIVE PointsRendered(_)
PointsRendered(points) ==
  IF points = <<>> THEN <<>>
  ELSE <<<<LexInt(Head(points)[1]), LexInt(Head(points)[2])>>>> \o PointsRendered(Tail(points))

C17_TransformMonoidActsLeftToRight ==
  /\ tfs.composed
       => /\ tfs.left = tfs.right
          /\ tfs.identity_left = tfs.t1
          /\ tfs.identity_right = tfs.t1
  /\ tfs.applied => tfs.one_by_one = tfs.at_once

\* two transforms that do not commute, composed and applied to a point that
\* the other order sends elsewhere
C17_Witness ==
  /\ tfs.composed
  /\ tfs.applied
  /\ MatMul(tfs.t1, tfs.t2) # MatMul(tfs.t2, tfs.t1)
  /\ tfs.at_once # PointMatMul(PointMatMul(tfs.p, tfs.t2), tfs.t1)
  /\ tfs.t3 # Identity

(***************************************************************************)
(* Properties of the registry under concurrent renders (SpecRegistry).     *)
(***************************************************************************)
\* C21: with the statements of lookup-or-insert interleaved between threads,
\* no two distinct style dictionaries are assigned the same resource name,
\* and every name a call returned resolves to the dictionary it was returned
\* for.
C21_ConcurrentNamesDistinct ==
  /\ \A i, j \in 1..Len(registry) :
       i # j => registry[i].val # registry[j].val
  /\ \A t \in Threads : \A x \in threads[t].issued :
       x.name # None => GetStyleDictByName(nameLookup, x.name) = Ok(x.sdict)

(***************************************************************************)
(* Properties of the base transform (SpecBase).                            *)
(***************************************************************************)
\* the matrix the claim gives for a render at a scale and a height
FlipThenScale(scale, height) == Transform(scale, 0, 0, 0 - scale, 0, scale * height)

ArcsToPreviousEnd(elems) ==
  {i \in 2..Len(elems) :
     /\ elems[i].kind = "Arc"
     /\ elems[i - 1].kind \in {"Move", "Line", "Arc"}
     /\ elems[i].pt = elems[i - 1].pt}

\* the arcs of the drawing
ArcsOf(elems) == {i \in 1..Len(elems) : elems[i].kind \in {"Arc", "RelativeArc"}}

\* C28: a render of a drawing that holds an Arc of non-zero radii whose end
\* point is the end point of the element before it completes without error,
\* and that arc writes nothing: the string holds the curves of the other arcs
\* only.
C28_ArcToSamePointRendersNothing ==
  (result.call = "render" /\ ArcsToPreviousEnd(DrawingElements(1)) # {})
    => /\ result.err = ""
       /\ Cardinality(Positions(result.out, {"arc"}))
            = Cardinality(ArcsOf(DrawingElements(1))
                            \ ArcsToPreviousEnd(DrawingElements(1)))

SavedDepth(out, k) ==
  Cardinality({i \in Positions(out, {"q"}) : i <= k})
    - Cardinality({i \in Positions(out, {"Q"}) : i <= k})

SubpathStarts == {"Move", "RelativeMove", "Rectangle"}

\* C26: in a path that was built and not rendered yet, once every
\* transform_group block is left, every ImplicitClose comes, in the elements
\* of the path in depth-first order, after all the segments of the subpath it
\* closes and before the move that starts the next subpath: the element that
\* follows an ImplicitClose starts a subpath.
C26_ImplicitCloseEndsSubpath ==
  (groups = <<>> /\ renders = 0)
    => \A pid \in 1..Len(paths) :
         \A i \in 1..(Len(Elements(paths[pid].root, 1)) - 1) :
           Elements(paths[pid].root, 1)[i].kind = "ImplicitClose"
             => Elements(paths[pid].root, 1)[i + 1].kind \in SubpathStarts

(***************************************************************************)
(* Properties of the scene across a render (Spec).                         *)
(***************************************************************************)
\* C29: a render leaves the scene as it was: the child list of every
\* GraphicsContext, and of every PaintedPath the closed flag, the pending
\* starter move and the close context.
C29_RenderLeavesSceneUnchanged ==
  [][renders' = renders + 1 => (ctxs' = ctxs /\ paths' = paths)]_vars

====
